---- MODULE Spec2Model ----
(* The asynchronous job manager of the MCP 2025 server                     *)
(* (src/dist-cjs/src/mcp/async/job-manager-mcp25.js): MCPAsyncJobManager    *)
(* over its default MemoryJobPersistence.  Every async handler is split at  *)
(* its awaits: the code between two awaits is one atomic step, and other    *)
(* handlers may run between the steps.  MemoryJobPersistence never rejects, *)
(* nothing in the repository listens to the manager's events (emit cannot   *)
(* throw), and the hourly sweep does not overlap itself.  Tool ids,         *)
(* arguments and context are carried through untouched and are left out.    *)
EXTENDS Integers, Sequences, FiniteSets, TLC

\* ---------------------------------------------------------------- bounds
NumJobs == 2          \* job ids uuidv4() may hand out
MaxTime == 2          \* the clock Date.now() runs from 0 to at most MaxTime
MaxCancels == 2       \* accepted cancelJob calls, over all jobs
MaxProgress == 1      \* onProgress calls, over all jobs

\* ------------------------------------------------- configuration (scaled)
maxJobs == 1              \* config.maxJobs
jobTTL == 1               \* config.jobTTL, in clock ticks
defaultPollInterval == 5  \* config.defaultPollInterval

JobIds == 1..NumJobs
NotSet == -1
Terminal == {"success", "error", "cancelled"}
RequestIds == {"req"}
Results == {"res"}
ErrorMessages == {"boom", ""}
Percents == {-1, 50, 101}
QueueFullError == "Job queue full. Please try again later."
ExecutionFailed == "Job execution failed"

VARIABLES
    now,          \* Date.now() / new Date()
    nextId,       \* the next id uuidv4() hands out
    heap,         \* the job objects submitJob created, by job_id
    jobs,         \* keys of MCPAsyncJobManager.jobs (values are heap objects)
    pjobs,        \* MemoryJobPersistence.jobs: job_id -> saved copy
    porder,       \* insertion order of MemoryJobPersistence.jobs
    pc,           \* position of submitJob/executeJob for each job
    exec,         \* state of the executor's promise for each job
    emitted,      \* events emitted so far, per job and event name
    cancelAwait,  \* cancelJob calls suspended at their await, per job
    sweep,        \* position of cleanupExpiredJobs and what it still deletes
    hist,         \* every value assigned to job.status, in order (history)
    swept,        \* ids cleanupExpiredJobs has deleted from persistence (history)
    lastCall,     \* the API call that acted in the last step, with its outcome
    run,          \* what this run explores: ids available, when the clock stops
    serverCapabilities,  \* VersionNegotiator.serverCapabilities
    negotiated,   \* the last negotiate call: handshake, capabilities, result
    sessions,     \* MCP2025Server.sessions: session id -> session record
    handshakes,   \* handleHandshake calls suspended at their await, per session id
    config,       \* MCP2025Server.config: supportLegacyClients, async.enabled
    toolCalls,    \* handleToolCall calls suspended at an await, per session id
    reply,        \* what the call of the last step returned or threw
    metadataCache,    \* DynamicToolLoader.metadataCache, in insertion order
    loaderToolCache,  \* DynamicToolLoader.toolCache: name -> tool object
    scanComplete,     \* DynamicToolLoader.scanComplete
    scans,        \* scanTools calls suspended at an await
    toolCache,    \* ProgressiveToolRegistry.toolCache: name -> tool object
    loads,        \* loadTool / getOrLoadTool calls suspended at an await
    created,      \* the tool objects created so far, in order (history)
    returned,     \* tool objects the loads since the last clear returned (history)
    scanned,      \* scans of the tools directory since the last reload (history)
    epoch,        \* reload, clearCache and cleanup calls so far (history)
    query,        \* the query searchTools is given
    schemaCache,  \* SchemaValidator.schemaCache: key -> validator, timestamp
    compiled,     \* when ajv.compile produced a validator, per key, since
                  \* the last clearCache (history)
    registryConfig,       \* MCPRegistryClient.config: enabled
    healthCheckInterval,  \* MCPRegistryClient.healthCheckInterval
    timers,       \* the setInterval timers that have not been cleared
    timersStarted,  \* setInterval calls so far (history)
    registrations,  \* register calls suspended at an await
    backend,      \* backendInitialized and initPromise of the adapter
    db,           \* memories ReasoningBank.db holds (upsertMemory calls)
    queryCache,   \* the adapter's queryCache, in insertion order
    queryCalls,   \* queryMemories calls suspended at an await
    storeCalls,   \* the storeMemory call suspended at an await
    stored        \* the memories the completed storeMemory calls stored,
                  \* as a count of db (history)

\* the tool loader's and registry's state, and the validator's
tools == <<metadataCache, loaderToolCache, scanComplete, scans, toolCache,
           loads, created, returned, scanned, epoch, query>>
validator == <<schemaCache, compiled>>

\* the registry client's state, and the ReasoningBank adapter's
client == <<registryConfig, healthCheckInterval, timers, timersStarted,
            registrations>>
adapter == <<backend, db, queryCache, queryCalls, storeCalls, stored>>

\* the negotiator's and the server's state no job manager step touches
srv == <<serverCapabilities, negotiated, sessions, handshakes, config,
         tools, validator, client, adapter>>

vars == <<now, nextId, heap, jobs, pjobs, porder, pc, exec, emitted,
          cancelAwait, sweep, hist, swept, lastCall, run, srv, toolCalls, reply>>

\* A run follows either one job over the whole clock, or NumJobs jobs within
\* one instant of the clock.
Runs == {[ids |-> 1, clockEnd |-> MaxTime], [ids |-> NumJobs, clockEnd |-> 0]}

\* lastCall: op, the job id it was given, what the handler read (seen), how
\* it ended (ret) and what it returned or threw (value); while the call is
\* suspended (ret "pending") nothing was returned, and value holds Absent
\* (submitJob) or FALSE (cancelJob)
NoCall == [op |-> "none"]
Absent == [status |-> "absent"]
NoEvents == [started |-> 0, progress |-> 0, completed |-> 0, failed |-> 0,
             cancelled |-> 0]
NoProgress == [percent |-> NotSet, message |-> "absent"]
NoError == [message |-> "unset"]

\* ------------------------------------------------- MemoryJobPersistence
\* save(job): this.jobs.set(job.job_id, {...job})
save(p, j) == (j.job_id :> j) @@ p

\* Map.set keeps the position of a key that is present, appends a new one
saveOrder(o, p, id) == IF id \in DOMAIN p THEN o ELSE Append(o, id)

\* load(job_id): a copy of the saved job, or null
load(p, id) == IF id \in DOMAIN p THEN p[id] ELSE Absent

\* delete(job_id)
delete(p, id) == [k \in DOMAIN p \ {id} |-> p[k]]

deleteOrder(o, id) == SelectSeq(o, LAMBDA k : k # id)

\* ------------------------------------------------------- job records
\* a job that is created already running
NewJob_Running(id, req, t) ==
    [job_id |-> id, request_id |-> req, status |-> "running", progress |-> 0,
     progress_message |-> "unset", result |-> "unset", error |-> NoError,
     created_at |-> t, started_at |-> NotSet, completed_at |-> NotSet]

\* submitJob, lines 48-58
NewJob(id, req, t) ==
    [job_id |-> id, request_id |-> req, status |-> "queued", progress |-> 0,
     progress_message |-> "unset", result |-> "unset", error |-> NoError,
     created_at |-> t, started_at |-> NotSet, completed_at |-> NotSet]

\* executeJob, lines 143-144
StartedJob(j, t) == [j EXCEPT !.status = "running", !.started_at = t]

\* a completion that stores the result and no completed_at
CompletedJob_NoTimestamp(j, r, t) ==
    [j EXCEPT !.status = "success", !.result = r, !.progress = 100]

\* executeJob, lines 162-165
CompletedJob(j, r, t) ==
    [j EXCEPT !.status = "success", !.result = r, !.progress = 100,
              !.completed_at = t]

\* a catch block that records the error and forgets the status
FailedJob_StatusKept(j, m, t) ==
    [j EXCEPT !.error = [message |-> m], !.completed_at = t]

\* executeJob, lines 173-179
FailedJob(j, m, t) ==
    [j EXCEPT !.status = "error", !.error = [message |-> m], !.completed_at = t]

\* cancelJob, lines 130-131
CancelledJob(j, t) == [j EXCEPT !.status = "cancelled", !.completed_at = t]

\* a progress callback that stores the percent as given
Clamp_AsGiven(percent) == percent

\* onProgress, lines 153-154
Clamp(percent) ==
    LET lo == IF percent > 0 THEN percent ELSE 0
    IN  IF lo < 100 THEN lo ELSE 100

ProgressedJob(j, percent) ==
    [j EXCEPT !.progress = Clamp(percent), !.progress_message = "msg"]

\* submitJob, line 45
QueueFull(size) == size >= maxJobs

\* cancelJob, line 127: the statuses on which cancelJob returns false
CancelRefused(status) == status = "success" \/ status = "error"

\* pollJob line 79, resumeJob line 101
ResponseStatus(status) ==
    IF status = "success" THEN "success"
    ELSE IF status = "error" THEN "error" ELSE "in_progress"

\* pollJob, lines 79-92
PollHandle(j) ==
    LET status == ResponseStatus(j.status)
    IN  [request_id |-> j.request_id, job_id |-> j.job_id, status |-> status,
         poll_after |-> IF status = "in_progress" THEN defaultPollInterval ELSE 0,
         progress |-> IF status = "in_progress"
                      THEN [percent |-> j.progress, message |-> j.progress_message]
                      ELSE NoProgress]

\* resumeJob, lines 99-120
ResumeResult(j) ==
    [request_id |-> j.request_id,
     status |-> ResponseStatus(j.status),
     result |-> IF j.status = "success" THEN j.result ELSE "absent",
     duration_ms |-> IF j.status = "success" /\ j.completed_at # NotSet
                        /\ j.started_at # NotSet
                     THEN j.completed_at - j.started_at ELSE NotSet,
     error |-> IF j.status = "error"
               THEN [code |-> "EXECUTION_ERROR",
                     message |-> IF j.error.message \in {"", "unset"}
                                 THEN ExecutionFailed ELSE j.error.message,
                     details |-> j.error]
               ELSE [code |-> "absent", message |-> "absent", details |-> NoError],
     progress |-> IF j.status \notin {"success", "error"}
                  THEN [percent |-> j.progress, message |-> j.progress_message]
                  ELSE NoProgress]

\* the handle submitJob returns for job j (lines 67-72)
JobHandle(j) ==
    [request_id |-> j.request_id, job_id |-> j.job_id,
     status |-> "in_progress", poll_after |-> defaultPollInterval]

\* a sweep that looks at the age only
Expired_AnyStatus(j, t) == t - j.created_at > jobTTL

\* cleanupExpiredJobs, lines 193-194
Expired(j, t) == t - j.created_at > jobTTL /\ j.status # "running"

Emit(e, id, name) == [e EXCEPT ![id][name] = @ + 1]

RECURSIVE Sum(_, _)
Sum(f, S) == IF S = {} THEN 0
             ELSE LET x == CHOOSE y \in S : TRUE IN f[x] + Sum(f, S \ {x})

\* accepted cancelJob calls and onProgress calls so far
CancelCalls == Sum([i \in JobIds |-> emitted[i].cancelled + cancelAwait[i]], JobIds)
ProgressCalls == Sum([i \in JobIds |-> emitted[i].progress], JobIds)

\* ------------------------------------------------------ VersionNegotiator
\* (src/unnamed/part_001, lines 8-146).  Client ids, server ids and metadata
\* are carried through untouched and are left out.  A capabilities field is
\* an array (kind "array", with its items), some other value, or missing.
Undefined == "undefined"
Falsy(x) == x \in {Undefined, ""}

\* lines 10-13
supportedVersions == <<"2025-11", "2024-11">>

\* line 14
serverVersion == "2025-11"

\* lines 15-20: serverCapabilities as constructed
DefaultCapabilities == <<"async", "registry", "code_exec", "stream">>

InvalidStructure == "Invalid handshake structure"
VersionMismatch == "Version mismatch: Difference exceeds 1 cycle."
NoNegotiationError == "none"

Range(seq) == {seq[i] : i \in DOMAIN seq}
Includes(seq, x) == x \in Range(seq)

\* line 102: version.split('-').map(Number), for the version strings the
\* model hands to negotiate; a part that is no number is NaN and ends the
\* usable parts (the Date built from it is invalid)
VersionParts(version) ==
    CASE version = "2025-11" -> <<2025, 11>>
      [] version = "2024-11" -> <<2024, 11>>
      [] version = "2025-10" -> <<2025, 10>>
      [] version = "2025-12" -> <<2025, 12>>
      [] version = "2025-09" -> <<2025, 9>>
      [] version = "2026-01" -> <<2026, 1>>
      [] version = "2024-12" -> <<2024, 12>>
      [] version = "2026-11" -> <<2026, 11>>
      [] version = "2025-13" -> <<2025, 13>>
      [] version = "25-11" -> <<25, 11>>
      [] version = "1.0" -> <<1>>
      [] OTHER -> <<>>

InvalidDate == [valid |-> FALSE, year |-> 0, month |-> 0]

\* lines 101-104: new Date(year, month - 1, 1).  Date carries a month
\* outside 0..11 into the year and reads a year 0..99 as 1900 + year.
parseVersion(version) ==
    LET parts == VersionParts(version)
    IN  IF Len(parts) < 2 THEN InvalidDate
        ELSE LET year == IF parts[1] \in 0..99 THEN 1900 + parts[1] ELSE parts[1]
                 months == year * 12 + parts[2] - 1
             IN  [valid |-> TRUE, year |-> months \div 12, month |-> months % 12]

NaN == [nan |-> TRUE, value |-> 0]

\* a difference that forgets the years
getMonthsDifference_MonthsOnly(date1, date2) ==
    IF ~date1.valid \/ ~date2.valid THEN NaN
    ELSE [nan |-> FALSE, value |-> date2.month - date1.month]

\* lines 105-108
getMonthsDifference(date1, date2) ==
    IF ~date1.valid \/ ~date2.valid THEN NaN
    ELSE [nan |-> FALSE,
          value |-> (date2.year - date1.year) * 12 + date2.month - date1.month]

Abs(n) == IF n < 0 THEN -n ELSE n

\* line 81: Math.abs(monthsDiff) > 1, which is false of NaN
ExceedsOneCycle(monthsDiff) == ~monthsDiff.nan /\ Abs(monthsDiff.value) > 1

\* a check that accepts a close version as the client sent it
checkVersionCompatibility_NotPinned(clientVersion) ==
    IF clientVersion = serverVersion \/ Includes(supportedVersions, clientVersion)
    THEN [compatible |-> TRUE, version |-> clientVersion,
          error |-> NoNegotiationError]
    ELSE IF ExceedsOneCycle(getMonthsDifference(parseVersion(clientVersion),
                                                parseVersion(serverVersion)))
    THEN [compatible |-> FALSE, version |-> serverVersion,
          error |-> VersionMismatch]
    ELSE [compatible |-> TRUE, version |-> clientVersion,
          error |-> NoNegotiationError]

\* lines 61-97
checkVersionCompatibility(clientVersion) ==
    IF clientVersion = serverVersion
    THEN [compatible |-> TRUE, version |-> clientVersion,
          error |-> NoNegotiationError]
    ELSE IF Includes(supportedVersions, clientVersion)
    THEN [compatible |-> TRUE, version |-> clientVersion,
          error |-> NoNegotiationError]
    ELSE LET clientDate == parseVersion(clientVersion)
             serverDate == parseVersion(serverVersion)
             monthsDiff == getMonthsDifference(clientDate, serverDate)
         IN  IF ExceedsOneCycle(monthsDiff)
             THEN [compatible |-> FALSE, version |-> serverVersion,
                   error |-> VersionMismatch]
             ELSE [compatible |-> TRUE, version |-> serverVersion,
                   error |-> NoNegotiationError]

\* a filter that lets every client capability through
negotiateCapabilities_Unfiltered(clientCapabilities, capabilities) ==
    clientCapabilities

\* lines 98-100, with this.serverCapabilities as the second argument
negotiateCapabilities(clientCapabilities, capabilities) ==
    SelectSeq(clientCapabilities, LAMBDA cap : Includes(capabilities, cap))

\* a validity test that forgets the transport
isValidHandshake_TransportOptional(handshake) ==
    /\ ~Falsy(handshake.mcp_version)
    /\ handshake.capabilities.kind = "array"

\* a validity test that also wants a capability
isValidHandshake_NeedsCapability(handshake) ==
    /\ ~Falsy(handshake.mcp_version)
    /\ ~Falsy(handshake.transport)
    /\ handshake.capabilities.kind = "array"
    /\ handshake.capabilities.items # <<>>

\* lines 58-60
isValidHandshake(handshake) ==
    /\ ~Falsy(handshake.mcp_version)
    /\ ~Falsy(handshake.transport)
    /\ handshake.capabilities.kind = "array"

\* lines 24-57, with this.serverCapabilities as the second argument
negotiate(clientHandshake, capabilities) ==
    IF ~isValidHandshake(clientHandshake)
    THEN [success |-> FALSE, agreed_version |-> serverVersion,
          agreed_capabilities |-> <<>>, error |-> InvalidStructure]
    ELSE LET versionResult == checkVersionCompatibility(clientHandshake.mcp_version)
         IN  IF ~versionResult.compatible
             THEN [success |-> FALSE, agreed_version |-> serverVersion,
                   agreed_capabilities |-> <<>>, error |-> versionResult.error]
             ELSE [success |-> TRUE, agreed_version |-> versionResult.version,
                   agreed_capabilities |->
                       negotiateCapabilities(clientHandshake.capabilities.items,
                                             capabilities),
                   error |-> NoNegotiationError]

\* lines 109-117
createServerHandshake(capabilities) ==
    [mcp_version |-> serverVersion, capabilities |-> capabilities]

\* lines 129-136: the array after addCapability(capability)
addCapability(capabilities, capability) ==
    IF Includes(capabilities, capability) THEN capabilities
    ELSE Append(capabilities, capability)

\* lines 137-145: the array after removeCapability(capability); a capability
\* is in the array at most once, so removing the first removes it
removeCapability(capabilities, capability) ==
    SelectSeq(capabilities, LAMBDA cap : cap # capability)

\* a handshake with nothing in it
EmptyHandshake ==
    [mcp_version |-> Undefined, version |-> Undefined, transport |-> Undefined,
     capabilities |-> [kind |-> "undefined", items |-> <<>>]]

\* negotiated: the handshake negotiate is given and, when negotiate ran in
\* the last step, the capabilities it read and the result it returned
NotNegotiated(clientHandshake) == [called |-> FALSE, handshake |-> clientHandshake]

\* ---------------------------------------------------------- MCP2025Server
\* (src/dist-cjs/src/mcp/server-mcp-2025.js)
SessionIds == {"s1", "s2"}
NoSession == [present |-> FALSE]
NoHandshake == [pc |-> "none"]
NoToolCall == [pc |-> "none"]
NoReply == [op |-> "none"]

\* config.supportLegacyClients, config.async.enabled (this.jobManager is
\* set iff it holds, lines 40-46), config.validation.enabled
Configs == [supportLegacyClients : BOOLEAN, asyncEnabled : BOOLEAN,
            validationEnabled : BOOLEAN]
DefaultConfig == [supportLegacyClients |-> TRUE, asyncEnabled |-> TRUE,
                  validationEnabled |-> TRUE]

\* ------------------------- DynamicToolLoader and ProgressiveToolRegistry
\* (src/unnamed/part_001, lines 398-601; tool-registry-progressive.js)
MaxScans == 2         \* scanTools calls suspended at an await
MaxLoads == 2         \* loadTool / getOrLoadTool calls suspended at an await
MaxInstances == 3     \* tool objects created, over all creator functions
MaxEpochs == 1        \* reload, clearCache and cleanup calls

Null == 0
ScanIds == 1..MaxScans
LoadIds == 1..MaxLoads
CoreTool == "tools/search"

\* The tools directory, in the order readdir lists it: a tool with metadata
\* and a create* export, a tool whose file has metadata but no create*
\* export, and a file without a toolMetadata export.
ToolsDir ==
    << [category |-> "system", hasMetadata |-> TRUE, creator |-> TRUE,
        toolMetadata |-> [name |-> "tool", description |-> "status",
                          detailLevel |-> "standard", tags |-> <<"a">>]],
       [category |-> "system", hasMetadata |-> TRUE, creator |-> FALSE,
        toolMetadata |-> [name |-> "bare", description |-> "bare",
                          detailLevel |-> "standard", tags |-> <<>>]],
       [category |-> "data", hasMetadata |-> FALSE, creator |-> TRUE,
        toolMetadata |-> [name |-> "plain", description |-> "plain",
                          detailLevel |-> "standard", tags |-> <<>>]] >>

\* tool names callers ask for: the two scanned tools, and one that no scan
\* finds
ToolNames == {"tool", "bare", "plain"}
CacheNames == ToolNames \cup {CoreTool}
EmptyCache == [n \in CacheNames |-> Null]

NoScan == [pc |-> "none", next |-> 0, caller |-> "none"]
NoLoad == [pc |-> "none"]
NoQuery == [category |-> Undefined, detailLevel |-> Undefined,
            tags |-> [kind |-> "undefined", items |-> <<>>],
            namePattern |-> Undefined]

\* lines 438-442: { ...module.toolMetadata, category, filePath }
Metadata(file, index) ==
    [name |-> file.toolMetadata.name,
     description |-> file.toolMetadata.description,
     detailLevel |-> file.toolMetadata.detailLevel,
     tags |-> file.toolMetadata.tags,
     category |-> file.category,
     filePath |-> index]

\* Map.prototype.set on a map kept in insertion order, keyed by name
MapSet(map, metadata) ==
    IF \E i \in DOMAIN map : map[i].name = metadata.name
    THEN [i \in DOMAIN map |->
            IF map[i].name = metadata.name THEN metadata ELSE map[i]]
    ELSE Append(map, metadata)

\* Map.prototype.has / get on metadataCache
HasMetadata(map, toolName) == \E i \in DOMAIN map : map[i].name = toolName
GetMetadata(map, toolName) ==
    map[CHOOSE i \in DOMAIN map : map[i].name = toolName]

\* the loader and the registry as constructed (part_001 lines 401-403,
\* tool-registry-progressive.js line 33), or once a scan has filled
\* metadataCache with one of catalogues, and the query searchTools will be
\* given
InitRegistry(catalogues, queries) ==
    /\ metadataCache \in catalogues
    /\ loaderToolCache = EmptyCache
    /\ scanComplete = (metadataCache # <<>>)
    /\ scans = [s \in ScanIds |-> NoScan]
    /\ toolCache = EmptyCache
    /\ loads = [l \in LoadIds |-> NoLoad]
    /\ created = <<>>
    /\ returned = [n \in CacheNames |-> {}]
    /\ scanned = 0
    /\ epoch = 0
    /\ query \in queries

\* --------------------------------------------------------- SchemaValidator
\* (src/unnamed/part_004)
cacheTTL == 1             \* this.cacheTTL (one hour), in clock ticks

\* schemas by their JSON.stringify key: two that ajv compiles, one it rejects
Schemas == {"object", "string", "invalid"}
Compilable == {"object", "string"}
NoEntry == [present |-> FALSE]

\* the validator as constructed (part_004 line 7)
InitValidator ==
    /\ schemaCache = [k \in Schemas |-> NoEntry]
    /\ compiled = [k \in Schemas |-> <<>>]

\* ------------------------------------------------------------- Init
\* the job manager after its constructor (lines 36-43)
InitJobManager ==
    /\ now = 0
    /\ nextId = 1
    /\ heap = <<>>
    /\ jobs = {}
    /\ pjobs = <<>>
    /\ porder = <<>>
    /\ pc = [i \in JobIds |-> "none"]
    /\ exec = [i \in JobIds |-> "idle"]
    /\ emitted = [i \in JobIds |-> NoEvents]
    /\ cancelAwait = [i \in JobIds |-> 0]
    /\ sweep = [pc |-> "idle", todo |-> <<>>]
    /\ hist = [i \in JobIds |-> <<>>]
    /\ swept = {}
    /\ lastCall = NoCall
    /\ run \in Runs

\* the negotiator as constructed (part_001, lines 10-20), and the handshake
\* it will be given, one of inputs
InitNegotiator(inputs) ==
    /\ serverCapabilities = DefaultCapabilities
    /\ negotiated \in {NotNegotiated(h) : h \in inputs}

\* the server as constructed (server-mcp-2025.js, lines 16-36 and 40-46),
\* under one of the configurations cfgs
InitServer(cfgs) ==
    /\ sessions = [sid \in SessionIds |-> NoSession]
    /\ handshakes = [sid \in SessionIds |-> NoHandshake]
    /\ toolCalls = [sid \in SessionIds |-> NoToolCall]
    /\ reply = NoReply
    /\ config \in cfgs

\* ------------------------------------------------------ MCPRegistryClient
\* (src/unnamed/part_001, lines 183-392)
MaxRegisters == 2     \* register calls suspended at an await
MaxTimers == 3        \* setInterval calls
RegisterIds == 1..MaxRegisters
NoRegister == [pc |-> "none"]

\* the client as constructed (lines 190-197) with config.enabled one of
\* enabled; healthCheckInterval is undefined
InitRegistryClient(enabled) ==
    /\ registryConfig \in [enabled : enabled]
    /\ healthCheckInterval = Null
    /\ timers = {}
    /\ timersStarted = 0
    /\ registrations = [r \in RegisterIds |-> NoRegister]

\* -------------------------------------------------- reasoningbank-adapter
\* (src/dist-cjs/src/reasoningbank/reasoningbank-adapter.js)
MaxQueries == 2       \* queryMemories calls suspended at an await
MaxStores == 2        \* storeMemory calls, over the run
CACHE_SIZE == 2       \* CACHE_SIZE (100), scaled to the keys below
CACHE_TTL == 1        \* CACHE_TTL (one minute), in clock ticks
QueryIds == 1..MaxQueries
\* JSON.stringify({searchQuery, options}) of the queries made
CacheKeys == {"q1", "q2", "q3"}
NoQueryCall == [pc |-> "none"]
NoStore == [pc |-> "none"]

\* the module as loaded (lines 3-5)
InitAdapter ==
    /\ backend = "none"
    /\ db = 0
    /\ queryCache = <<>>
    /\ queryCalls = [q \in QueryIds |-> NoQueryCall]
    /\ storeCalls = NoStore
    /\ stored = 0

\* the tool loader and registry, the validator, the registry client and the
\* adapter, as constructed
InitTools ==
    /\ InitRegistry({<<>>}, {NoQuery})
    /\ InitValidator
    /\ InitRegistryClient({TRUE})
    /\ InitAdapter

Init ==
    /\ InitJobManager
    /\ InitNegotiator({EmptyHandshake})
    /\ InitServer({DefaultConfig})
    /\ InitTools

\* Handlers suspended at an await of MemoryJobPersistence (an async method
\* that returns at once) resume within the same event-loop turn.
PersistenceAwaits ==
    \/ \E i \in JobIds : pc[i] \in {"await_save_59", "await_save_145",
                                     "await_save_166", "await_save_180"}
    \/ \E i \in JobIds : cancelAwait[i] > 0
    \/ sweep.pc # "idle"

\* the clock advances by one jobTTL-sized tick, between event-loop turns
Tick ==
    /\ now < run.clockEnd
    /\ ~PersistenceAwaits
    /\ now' = now + 1
    /\ lastCall' = NoCall
    /\ UNCHANGED <<nextId, heap, jobs, pjobs, porder, pc, exec, emitted, cancelAwait, sweep, hist, swept, run, srv, toolCalls>>
    /\ reply' = NoReply

\* ------------------------------------------------------------ submitJob
\* a capacity check made only after the job was created and saved
submitJob_rejected_afterSave(req) ==
    /\ QueueFull(Cardinality(jobs))
    /\ nextId <= run.ids
    /\ heap' = (nextId :> NewJob(nextId, req, now)) @@ heap
    /\ pjobs' = save(pjobs, NewJob(nextId, req, now))
    /\ porder' = saveOrder(porder, pjobs, nextId)
    /\ nextId' = nextId + 1
    /\ lastCall' = [op |-> "submitJob", id |-> 0, seen |-> Cardinality(jobs),
                    ret |-> "error", value |-> QueueFullError]
    /\ UNCHANGED <<now, jobs, pc, exec, emitted, cancelAwait, sweep, hist,
                   swept, run, srv>>

\* lines 45-47: the capacity check fails and submitJob throws
submitJob_rejected(req) ==
    /\ QueueFull(Cardinality(jobs))
    /\ lastCall' = [op |-> "submitJob", id |-> 0, seen |-> Cardinality(jobs),
                    ret |-> "error", value |-> QueueFullError]
    /\ UNCHANGED <<now, nextId, heap, jobs, pjobs, porder, pc, exec, emitted, cancelAwait, sweep, hist, swept, run, srv>>

\* lines 45-59: the check passes, the job is created and saved; await save
submitJob_accepted(req) ==
    /\ ~QueueFull(Cardinality(jobs))
    /\ nextId <= run.ids
    /\ LET id == nextId
           job == NewJob(id, req, now)
       IN  /\ heap' = (id :> job) @@ heap
           /\ pjobs' = save(pjobs, job)
           /\ porder' = saveOrder(porder, pjobs, id)
           /\ pc' = [pc EXCEPT ![id] = "await_save_59"]
           /\ hist' = [hist EXCEPT ![id] = Append(@, job.status)]
           /\ lastCall' = [op |-> "submitJob", id |-> id,
                           seen |-> Cardinality(jobs), ret |-> "pending",
                           value |-> Absent]
    /\ nextId' = nextId + 1
    /\ UNCHANGED <<now, jobs, exec, emitted, cancelAwait, sweep, swept, run, srv>>

\* lines 60-72 with executeJob lines 143-145 inside the call of line 66:
\* the job enters the map, executeJob marks it running and saves it, suspends
\* at its await, and submitJob returns the handle
submitJob_resume(id) ==
    /\ pc[id] = "await_save_59"
    /\ jobs' = jobs \cup {id}
    /\ LET job == StartedJob(heap[id], now)
       IN  /\ heap' = [heap EXCEPT ![id] = job]
           /\ pjobs' = save(pjobs, job)
           /\ porder' = saveOrder(porder, pjobs, id)
           /\ hist' = [hist EXCEPT ![id] = Append(@, job.status)]
           /\ lastCall' = [op |-> "submitJob", id |-> id,
                           seen |-> Cardinality(jobs), ret |-> "ok",
                           value |-> [request_id |-> job.request_id,
                                      job_id |-> job.job_id,
                                      status |-> "in_progress",
                                      poll_after |-> defaultPollInterval]]
    /\ pc' = [pc EXCEPT ![id] = "await_save_145"]
    /\ UNCHANGED <<now, nextId, exec, emitted, cancelAwait, sweep, swept, run, srv>>

\* ------------------------------------------------------------ executeJob
\* lines 146-161: job:started is emitted and the executor is invoked
executeJob_invoke(id) ==
    /\ pc[id] = "await_save_145"
    /\ emitted' = Emit(emitted, id, "started")
    /\ exec' = [exec EXCEPT ![id] = "pending"]
    /\ pc' = [pc EXCEPT ![id] = "await_executor"]
    /\ lastCall' = NoCall
    /\ UNCHANGED <<now, nextId, heap, jobs, pjobs, porder, cancelAwait, sweep, hist, swept, run, srv, toolCalls>>
    /\ reply' = NoReply

\* lines 152-160: the executor reports progress
onProgress(id, percent) ==
    /\ exec[id] = "pending"
    /\ ProgressCalls < MaxProgress
    /\ LET job == ProgressedJob(heap[id], percent)
       IN  /\ heap' = [heap EXCEPT ![id] = job]
           /\ pjobs' = save(pjobs, job)
           /\ porder' = saveOrder(porder, pjobs, id)
    /\ emitted' = Emit(emitted, id, "progress")
    /\ lastCall' = [op |-> "onProgress", id |-> id, seen |-> percent,
                    ret |-> "emitted",
                    value |-> ProgressedJob(heap[id], percent).progress]
    /\ UNCHANGED <<now, nextId, jobs, pc, exec, cancelAwait, sweep, hist, swept, run, srv, toolCalls>>
    /\ reply' = NoReply

\* the executor's promise settles (line 161, before executeJob resumes)
executor_returns(id) ==
    /\ exec[id] = "pending"
    /\ exec' = [exec EXCEPT ![id] = "returned"]
    /\ lastCall' = NoCall
    /\ UNCHANGED <<now, nextId, heap, jobs, pjobs, porder, pc, emitted, cancelAwait, sweep, hist, swept, run, srv, toolCalls>>
    /\ reply' = NoReply

executor_throws(id) ==
    /\ exec[id] = "pending"
    /\ exec' = [exec EXCEPT ![id] = "thrown"]
    /\ lastCall' = NoCall
    /\ UNCHANGED <<now, nextId, heap, jobs, pjobs, porder, pc, emitted, cancelAwait, sweep, hist, swept, run, srv, toolCalls>>
    /\ reply' = NoReply

\* lines 161-166: executeJob resumes with the result; await save
executeJob_success(id, r) ==
    /\ pc[id] = "await_executor"
    /\ exec[id] = "returned"
    /\ LET job == CompletedJob(heap[id], r, now)
       IN  /\ heap' = [heap EXCEPT ![id] = job]
           /\ pjobs' = save(pjobs, job)
           /\ porder' = saveOrder(porder, pjobs, id)
           /\ hist' = [hist EXCEPT ![id] = Append(@, job.status)]
    /\ pc' = [pc EXCEPT ![id] = "await_save_166"]
    /\ lastCall' = NoCall
    /\ UNCHANGED <<now, nextId, jobs, exec, emitted, cancelAwait,
                   sweep, swept, run, srv, toolCalls>>
    /\ reply' = NoReply

\* lines 167-171
executeJob_completed(id) ==
    /\ pc[id] = "await_save_166"
    /\ emitted' = Emit(emitted, id, "completed")
    /\ pc' = [pc EXCEPT ![id] = "done"]
    /\ lastCall' = NoCall
    /\ UNCHANGED <<now, nextId, heap, jobs, pjobs, porder, exec, cancelAwait, sweep, hist, swept, run, srv, toolCalls>>
    /\ reply' = NoReply

\* lines 172-180: executeJob resumes with the executor's error; await save
executeJob_error(id, m) ==
    /\ pc[id] = "await_executor"
    /\ exec[id] = "thrown"
    /\ LET job == FailedJob(heap[id], m, now)
       IN  /\ heap' = [heap EXCEPT ![id] = job]
           /\ pjobs' = save(pjobs, job)
           /\ porder' = saveOrder(porder, pjobs, id)
           /\ hist' = [hist EXCEPT ![id] = Append(@, job.status)]
    /\ pc' = [pc EXCEPT ![id] = "await_save_180"]
    /\ lastCall' = NoCall
    /\ UNCHANGED <<now, nextId, jobs, exec, emitted, cancelAwait,
                   sweep, swept, run, srv, toolCalls>>
    /\ reply' = NoReply

\* lines 181-185
executeJob_failed(id) ==
    /\ pc[id] = "await_save_180"
    /\ emitted' = Emit(emitted, id, "failed")
    /\ pc' = [pc EXCEPT ![id] = "done"]
    /\ lastCall' = NoCall
    /\ UNCHANGED <<now, nextId, heap, jobs, pjobs, porder, exec, cancelAwait, sweep, hist, swept, run, srv, toolCalls>>
    /\ reply' = NoReply

\* ------------------------------------------------------------- cancelJob
\* lines 123-129: the job is not in the map, or is success/error: return false
cancelJob_refused(id) ==
    /\ IF id \in jobs THEN CancelRefused(heap[id].status) ELSE TRUE
    /\ lastCall' = [op |-> "cancelJob", id |-> id,
                    seen |-> IF id \in jobs THEN heap[id] ELSE Absent,
                    ret |-> "ok", value |-> FALSE]
    /\ UNCHANGED <<now, nextId, heap, jobs, pjobs, porder, pc, exec, emitted, cancelAwait, sweep, hist, swept, run, srv, toolCalls>>
    /\ reply' = NoReply

\* lines 123-132: the job is marked cancelled and saved; await save
cancelJob_accepted(id) ==
    /\ id \in jobs
    /\ ~CancelRefused(heap[id].status)
    /\ CancelCalls < MaxCancels
    /\ LET job == CancelledJob(heap[id], now)
       IN  /\ heap' = [heap EXCEPT ![id] = job]
           /\ pjobs' = save(pjobs, job)
           /\ porder' = saveOrder(porder, pjobs, id)
           /\ hist' = [hist EXCEPT ![id] = Append(@, job.status)]
    /\ cancelAwait' = [cancelAwait EXCEPT ![id] = @ + 1]
    /\ lastCall' = [op |-> "cancelJob", id |-> id, seen |-> heap[id],
                    ret |-> "pending", value |-> FALSE]
    /\ UNCHANGED <<now, nextId, jobs, pc, exec, emitted, sweep, swept, run, srv, toolCalls>>
    /\ reply' = NoReply

\* lines 133-137: job:cancelled is emitted and cancelJob returns true
cancelJob_resume(id) ==
    /\ cancelAwait[id] > 0
    /\ cancelAwait' = [cancelAwait EXCEPT ![id] = @ - 1]
    /\ emitted' = Emit(emitted, id, "cancelled")
    /\ lastCall' = [op |-> "cancelJob", id |-> id, seen |-> heap[id],
                    ret |-> "ok", value |-> TRUE]
    /\ UNCHANGED <<now, nextId, heap, jobs, pjobs, porder, pc, exec, sweep, hist, swept, run, srv, toolCalls>>
    /\ reply' = NoReply

\* ------------------------------------------------- pollJob and resumeJob
\* lines 75-78 and 95-98: persistence.load(job_id) finds nothing
NotFound(id) == [message |-> "Job not found: ", id |-> id]

\* pollJob, lines 74-93
pollJob(id) ==
    /\ lastCall' = [op |-> "pollJob", id |-> id, seen |-> load(pjobs, id),
                    ret |-> IF id \in DOMAIN pjobs THEN "ok" ELSE "error",
                    value |-> IF id \in DOMAIN pjobs THEN PollHandle(pjobs[id])
                              ELSE NotFound(id)]
    /\ UNCHANGED <<now, nextId, heap, jobs, pjobs, porder, pc, exec, emitted, cancelAwait, sweep, hist, swept, run, srv, toolCalls>>
    /\ reply' = NoReply

\* resumeJob, lines 94-121
resumeJob(id) ==
    /\ lastCall' = [op |-> "resumeJob", id |-> id, seen |-> load(pjobs, id),
                    ret |-> IF id \in DOMAIN pjobs THEN "ok" ELSE "error",
                    value |-> IF id \in DOMAIN pjobs THEN ResumeResult(pjobs[id])
                              ELSE NotFound(id)]
    /\ UNCHANGED <<now, nextId, heap, jobs, pjobs, porder, pc, exec, emitted, cancelAwait, sweep, hist, swept, run, srv, toolCalls>>
    /\ reply' = NoReply

\* ---------------------------------------------------- cleanupExpiredJobs
\* lines 189-190: now is read and the persisted jobs are listed; await list.
\* The loop of lines 192-199 tests each listed copy against this now, so what
\* it will delete is fixed here.
cleanupExpiredJobs_list ==
    /\ sweep.pc = "idle"
    /\ sweep' = [pc |-> "await_list",
                 todo |-> SelectSeq(porder, LAMBDA k : Expired(pjobs[k], now))]
    /\ lastCall' = NoCall
    /\ UNCHANGED <<now, nextId, heap, jobs, pjobs, porder, pc, exec, emitted, cancelAwait, hist, swept, run, srv, toolCalls>>
    /\ reply' = NoReply

\* lines 192-195, or 192-205 when nothing is left: the loop runs up to the
\* next expired job and deletes it from persistence; await delete
cleanupExpiredJobs_delete ==
    /\ sweep.pc = "await_list"
    /\ lastCall' = NoCall
    /\ IF sweep.todo = <<>>
       THEN /\ sweep' = [pc |-> "idle", todo |-> <<>>]
            /\ UNCHANGED <<pjobs, porder, swept>>
       ELSE /\ sweep' = [sweep EXCEPT !.pc = "await_delete"]
            /\ pjobs' = delete(pjobs, Head(sweep.todo))
            /\ porder' = deleteOrder(porder, Head(sweep.todo))
            /\ swept' = swept \cup {Head(sweep.todo)}
    /\ UNCHANGED <<now, nextId, heap, jobs, pc, exec, emitted,
                   cancelAwait, hist, run, srv, toolCalls>>
    /\ reply' = NoReply

\* lines 196-199 and on: the job leaves the map, and the loop runs on to the
\* next expired job (await delete) or to its end
cleanupExpiredJobs_resume ==
    /\ sweep.pc = "await_delete"
    /\ lastCall' = NoCall
    /\ jobs' = jobs \ {Head(sweep.todo)}
    /\ LET rest == Tail(sweep.todo)
       IN  IF rest = <<>>
           THEN /\ sweep' = [pc |-> "idle", todo |-> <<>>]
                /\ UNCHANGED <<pjobs, porder, swept>>
           ELSE /\ sweep' = [pc |-> "await_delete", todo |-> rest]
                /\ pjobs' = delete(pjobs, Head(rest))
                /\ porder' = deleteOrder(porder, Head(rest))
                /\ swept' = swept \cup {Head(rest)}
    /\ UNCHANGED <<now, nextId, heap, pc, exec, emitted,
                   cancelAwait, hist, run, srv, toolCalls>>
    /\ reply' = NoReply

Next ==
    \/ Tick
    \/ \E req \in RequestIds : submitJob_rejected(req) /\ UNCHANGED <<toolCalls, reply>>
    \/ \E req \in RequestIds : submitJob_accepted(req) /\ UNCHANGED <<toolCalls, reply>>
    \/ \E id \in JobIds : submitJob_resume(id) /\ UNCHANGED <<toolCalls, reply>>
    \/ \E id \in JobIds : executeJob_invoke(id)
    \/ \E id \in JobIds, percent \in Percents : onProgress(id, percent)
    \/ \E id \in JobIds : executor_returns(id)
    \/ \E id \in JobIds : executor_throws(id)
    \/ \E id \in JobIds, r \in Results : executeJob_success(id, r)
    \/ \E id \in JobIds : executeJob_completed(id)
    \/ \E id \in JobIds, m \in ErrorMessages : executeJob_error(id, m)
    \/ \E id \in JobIds : executeJob_failed(id)
    \/ \E id \in JobIds : cancelJob_refused(id)
    \/ \E id \in JobIds : cancelJob_accepted(id)
    \/ \E id \in JobIds : cancelJob_resume(id)
    \/ \E id \in JobIds : pollJob(id)
    \/ \E id \in JobIds : resumeJob(id)
    \/ cleanupExpiredJobs_list
    \/ cleanupExpiredJobs_delete
    \/ cleanupExpiredJobs_resume

Spec == Init /\ [][Next]_vars

\* The event loop resumes every handler whose awaited promise has settled.
\* The executor settling, the clock, and the callers' calls are not forced.
Resumptions ==
    \A id \in JobIds :
        /\ WF_vars(submitJob_resume(id))
        /\ WF_vars(executeJob_invoke(id))
        /\ WF_vars(\E r \in Results : executeJob_success(id, r))
        /\ WF_vars(executeJob_completed(id))
        /\ WF_vars(\E m \in ErrorMessages : executeJob_error(id, m))
        /\ WF_vars(executeJob_failed(id))
        /\ WF_vars(cancelJob_resume(id))

FairSpec == Spec /\ Resumptions /\ WF_vars(cleanupExpiredJobs_delete)
                 /\ WF_vars(cleanupExpiredJobs_resume)

\* executeJob resumes once its executor has settled (line 161)
ExecutorAwaited ==
    \A id \in JobIds :
        /\ WF_vars(\E r \in Results : executeJob_success(id, r))
        /\ WF_vars(\E m \in ErrorMessages : executeJob_error(id, m))

ExecSpec == Spec /\ ExecutorAwaited

\* ------------------------------------------- BackwardCompatibilityAdapter
\* part_001, lines 152-154: !request.mcp_version || request.version, as a
\* truth value
isLegacyRequest(request) ==
    Falsy(request.mcp_version) \/ ~Falsy(request.version)

\* part_001, lines 155-167
convertToModern(legacyRequest) ==
    [mcp_version |-> "2025-11", version |-> Undefined,
     transport |-> IF Falsy(legacyRequest.transport) THEN "stdio"
                   ELSE legacyRequest.transport,
     capabilities |-> IF legacyRequest.capabilities.kind = "undefined"
                      THEN [kind |-> "array", items |-> <<>>]
                      ELSE legacyRequest.capabilities]

\* part_001, lines 168-179, for the response of handleLegacyToolCall
convertToLegacy(modernResponse) ==
    [version |-> Undefined, serverId |-> Undefined, capabilities |-> Undefined,
     result |-> modernResponse.result, status |-> modernResponse.status]

\* ------------------------------------------------- MCP2025Server handlers
MaxInFlight == 1      \* handleHandshake and handleToolCall calls in flight

\* server calls suspended at an await
InFlight ==
    Cardinality({sid \in SessionIds : handshakes[sid].pc # "none"})
        + Cardinality({sid \in SessionIds : toolCalls[sid].pc # "none"})

\* tool ids toolRegistry.getTool resolves; for any other id it returns null
KnownTools == {"tool"}

\* arguments stand for what schemaValidator.validateInput says of them
InputValid(request) == request.arguments = "valid"

\* lines 74-79: the session record
SessionRecord(negotiation, isLegacy) ==
    [present |-> TRUE, version |-> negotiation.agreed_version,
     capabilities |-> negotiation.agreed_capabilities, isLegacy |-> isLegacy]

\* a server handshake that keeps the server's own version and capabilities
ServerHandshake_Unstamped(negotiation, capabilities) ==
    createServerHandshake(capabilities)

\* lines 80-86: the server handshake, stamped with what was negotiated
ServerHandshake(negotiation, capabilities) ==
    [createServerHandshake(capabilities) EXCEPT
        !.mcp_version = negotiation.agreed_version,
        !.capabilities = negotiation.agreed_capabilities]

jobState == <<now, nextId, heap, jobs, pjobs, porder, pc, exec, emitted,
              cancelAwait, sweep, hist, swept, run>>

\* lines 59-70: the request is normalised and negotiated; await negotiate
handleHandshake_negotiate(clientHandshake, sessionId) ==
    /\ handshakes[sessionId] = NoHandshake
    /\ InFlight < MaxInFlight
    /\ LET isLegacy == isLegacyRequest(clientHandshake)
           handshake == IF isLegacy /\ config.supportLegacyClients
                        THEN convertToModern(clientHandshake)
                        ELSE clientHandshake
       IN  handshakes' = [handshakes EXCEPT ![sessionId] =
               [pc |-> "await_negotiate", clientHandshake |-> clientHandshake,
                handshake |-> handshake, isLegacy |-> isLegacy,
                negotiation |-> negotiate(handshake, serverCapabilities)]]
    /\ reply' = NoReply
    /\ lastCall' = NoCall
    /\ UNCHANGED <<jobState, tools, validator, client, adapter, serverCapabilities, negotiated, sessions, config,
                   toolCalls>>

\* lines 71-73: the negotiation failed and handleHandshake throws
handleHandshake_failed(sessionId) ==
    /\ handshakes[sessionId].pc = "await_negotiate"
    /\ ~handshakes[sessionId].negotiation.success
    /\ handshakes' = [handshakes EXCEPT ![sessionId] = NoHandshake]
    /\ reply' = [op |-> "handleHandshake", sid |-> sessionId, ret |-> "error",
                 error |-> handshakes[sessionId].negotiation.error]
    /\ lastCall' = NoCall
    /\ UNCHANGED <<jobState, tools, validator, client, adapter, serverCapabilities, negotiated, sessions, config,
                   toolCalls>>

\* lines 71-93: the session is stored and the server handshake returned
handleHandshake_stored(sessionId) ==
    /\ handshakes[sessionId].pc = "await_negotiate"
    /\ handshakes[sessionId].negotiation.success
    /\ sessions' = [sessions EXCEPT ![sessionId] =
                       SessionRecord(handshakes[sessionId].negotiation,
                                     handshakes[sessionId].isLegacy)]
    /\ handshakes' = [handshakes EXCEPT ![sessionId] = NoHandshake]
    /\ reply' = [op |-> "handleHandshake", sid |-> sessionId, ret |-> "ok",
                 value |-> ServerHandshake(handshakes[sessionId].negotiation,
                                           serverCapabilities)]
    /\ lastCall' = NoCall
    /\ UNCHANGED <<jobState, tools, validator, client, adapter, serverCapabilities, negotiated, config, toolCalls>>

\* -------------------------------------------- the negotiator on its own
MaxCapabilities == 2      \* length of a client's capability list

\* version strings a client may send (missing, empty, YYYY-MM at several
\* distances from the server's, and strings that are no YYYY-MM)
Versions == {Undefined, "", "2025-11", "2024-11", "2025-10", "2025-12",
             "2025-09", "2026-01", "2024-12", "2026-11", "2025-13", "25-11",
             "1.0", "abc"}
Transports == {Undefined, "stdio"}
ClientCapabilities == {"async", "stream", "tools"}
AdminCapabilities == {"async", "tools"}

CapabilityLists ==
    UNION {[1..n -> ClientCapabilities] : n \in 0..MaxCapabilities}

CapabilityValues ==
    {[kind |-> "array", items |-> l] : l \in CapabilityLists}
        \cup {[kind |-> "string", items |-> <<>>],
              [kind |-> "undefined", items |-> <<>>]}

Handshakes ==
    [mcp_version : Versions, version : {Undefined}, transport : Transports,
     capabilities : CapabilityValues]

\* negotiate(clientHandshake), lines 24-57
VersionNegotiator_negotiate ==
    /\ negotiated' = [called |-> TRUE, handshake |-> negotiated.handshake,
                      capabilities |-> serverCapabilities,
                      result |-> negotiate(negotiated.handshake,
                                           serverCapabilities)]
    /\ reply' = NoReply
    /\ lastCall' = NoCall
    /\ UNCHANGED <<now, nextId, heap, jobs, pjobs, porder, pc, exec, emitted,
                   cancelAwait, sweep, hist, swept, run, serverCapabilities,
                   sessions, handshakes, config, toolCalls, tools, validator, client, adapter>>

\* addCapability(capability), lines 129-136
VersionNegotiator_addCapability(capability) ==
    /\ serverCapabilities' = addCapability(serverCapabilities, capability)
    /\ negotiated' = NotNegotiated(negotiated.handshake)
    /\ reply' = NoReply
    /\ lastCall' = NoCall
    /\ UNCHANGED <<now, nextId, heap, jobs, pjobs, porder, pc, exec, emitted,
                   cancelAwait, sweep, hist, swept, run, sessions, handshakes,
                   config, toolCalls, tools, validator, client, adapter>>

\* removeCapability(capability), lines 137-145
VersionNegotiator_removeCapability(capability) ==
    /\ serverCapabilities' = removeCapability(serverCapabilities, capability)
    /\ negotiated' = NotNegotiated(negotiated.handshake)
    /\ reply' = NoReply
    /\ lastCall' = NoCall
    /\ UNCHANGED <<now, nextId, heap, jobs, pjobs, porder, pc, exec, emitted,
                   cancelAwait, sweep, hist, swept, run, sessions, handshakes,
                   config, toolCalls, tools, validator, client, adapter>>

NegotiatorInit ==
    /\ InitJobManager
    /\ run.clockEnd = 0
    /\ InitNegotiator(Handshakes)
    /\ InitServer({DefaultConfig})
    /\ InitTools

NegotiatorNext ==
    \/ VersionNegotiator_negotiate
    \/ \E capability \in AdminCapabilities :
          VersionNegotiator_addCapability(capability)
    \/ \E capability \in AdminCapabilities :
          VersionNegotiator_removeCapability(capability)

NegotiatorSpec == NegotiatorInit /\ [][NegotiatorNext]_vars


\* ------------------------------------- MCP2025Server.handleToolCall
\* lines 95-98 and 156-163: the session is legacy; toolRegistry.getTool is
\* asked for request.name; await getTool
handleToolCall_legacy(request, sessionId) ==
    /\ toolCalls[sessionId] = NoToolCall
    /\ InFlight < MaxInFlight
    /\ sessions[sessionId].present
    /\ sessions[sessionId].isLegacy
    /\ toolCalls' = [toolCalls EXCEPT ![sessionId] =
           [pc |-> "await_getTool_legacy", request |-> request,
            session |-> sessions[sessionId], job |-> 0]]
    /\ reply' = NoReply
    /\ lastCall' = NoCall
    /\ UNCHANGED <<jobState, srv>>

\* lines 95-103: a modern call without tool_id throws
handleToolCall_missingToolId(request, sessionId) ==
    /\ toolCalls[sessionId] = NoToolCall
    /\ ~(sessions[sessionId].present /\ sessions[sessionId].isLegacy)
    /\ Falsy(request.tool_id)
    /\ reply' = [op |-> "handleToolCall", sid |-> sessionId, ret |-> "error",
                 path |-> "none", error |-> "Missing tool_id in request"]
    /\ lastCall' = NoCall
    /\ UNCHANGED <<jobState, srv, toolCalls>>

\* lines 95-104: the session (or its absence) is read, toolRegistry.getTool
\* is asked for request.tool_id; await getTool
handleToolCall_getTool(request, sessionId) ==
    /\ toolCalls[sessionId] = NoToolCall
    /\ InFlight < MaxInFlight
    /\ ~(sessions[sessionId].present /\ sessions[sessionId].isLegacy)
    /\ ~Falsy(request.tool_id)
    /\ toolCalls' = [toolCalls EXCEPT ![sessionId] =
           [pc |-> "await_getTool", request |-> request,
            session |-> sessions[sessionId], job |-> 0]]
    /\ reply' = NoReply
    /\ lastCall' = NoCall
    /\ UNCHANGED <<jobState, srv>>

\* line 114, on the session record the call read at line 96
hasAsyncCapability(session) ==
    session.present /\ Includes(session.capabilities, "async")

\* a branch that looks at the requested mode only
isAsyncRequest_ModeOnly(request, session) == request.mode = "async"

\* line 115
isAsyncRequest(request, session) ==
    request.mode = "async" /\ hasAsyncCapability(session)

\* a server that refuses unknown tools only
Refusal_ToolOnly(request) ==
    IF request.tool_id \notin KnownTools THEN "Tool not found" ELSE "none"

\* why a modern call is refused after getTool (lines 105-113), or "none"
Refusal(request) ==
    IF request.tool_id \notin KnownTools THEN "Tool not found"
    ELSE IF config.validationEnabled /\ ~InputValid(request) THEN "Invalid input"
    ELSE "none"

\* lines 105-112: no such tool, or the arguments fail validation: throw
handleToolCall_refused(sessionId) ==
    /\ toolCalls[sessionId].pc = "await_getTool"
    /\ Refusal(toolCalls[sessionId].request) # "none"
    /\ toolCalls' = [toolCalls EXCEPT ![sessionId] = NoToolCall]
    /\ reply' = [op |-> "handleToolCall", sid |-> sessionId, ret |-> "error",
                 path |-> "none", error |-> Refusal(toolCalls[sessionId].request)]
    /\ lastCall' = NoCall
    /\ UNCHANGED <<jobState, srv>>

\* the call at sessionId has passed lines 105-113 and takes the async branch
TakesAsyncBranch(sessionId) ==
    /\ toolCalls[sessionId].pc = "await_getTool"
    /\ Refusal(toolCalls[sessionId].request) = "none"
    /\ isAsyncRequest(toolCalls[sessionId].request, toolCalls[sessionId].session)
    /\ config.asyncEnabled

\* lines 114-121 with submitJob lines 45-47: the job manager is full, and
\* handleToolCall throws what submitJob threw
handleToolCall_queueFull(sessionId) ==
    /\ TakesAsyncBranch(sessionId)
    /\ submitJob_rejected(toolCalls[sessionId].request.request_id)
    /\ toolCalls' = [toolCalls EXCEPT ![sessionId] = NoToolCall]
    /\ reply' = [op |-> "handleToolCall", sid |-> sessionId, ret |-> "error",
                 path |-> "async", error |-> QueueFullError]

\* lines 114-121 with submitJob lines 45-59: the call is handed to the job
\* manager; await submitJob
handleToolCall_submit(sessionId) ==
    /\ TakesAsyncBranch(sessionId)
    /\ submitJob_accepted(toolCalls[sessionId].request.request_id)
    /\ toolCalls' = [toolCalls EXCEPT ![sessionId] =
                        [@ EXCEPT !.pc = "await_submitJob", !.job = nextId]]
    /\ reply' = [op |-> "handleToolCall", sid |-> sessionId, ret |-> "pending",
                 path |-> "async", error |-> "none"]

\* line 121: submitJob has returned its handle, and handleToolCall returns it
handleToolCall_handle(sessionId) ==
    /\ toolCalls[sessionId].pc = "await_submitJob"
    /\ pc[toolCalls[sessionId].job] # "await_save_59"
    /\ toolCalls' = [toolCalls EXCEPT ![sessionId] = NoToolCall]
    /\ reply' = [op |-> "handleToolCall", sid |-> sessionId, ret |-> "ok",
                 path |-> "async", error |-> "none",
                 value |-> JobHandle(heap[toolCalls[sessionId].job])]
    /\ lastCall' = NoCall
    /\ UNCHANGED <<jobState, srv>>

\* lines 127-136: the synchronous branch invokes the handler; await handler
handleToolCall_invoke(sessionId) ==
    /\ toolCalls[sessionId].pc = "await_getTool"
    /\ Refusal(toolCalls[sessionId].request) = "none"
    /\ ~TakesAsyncBranch(sessionId)
    /\ toolCalls' = [toolCalls EXCEPT ![sessionId] =
                        [@ EXCEPT !.pc = "await_handler"]]
    /\ reply' = [op |-> "handleToolCall", sid |-> sessionId, ret |-> "pending",
                 path |-> "sync", error |-> "none"]
    /\ lastCall' = NoCall
    /\ UNCHANGED <<jobState, srv>>

\* lines 137-153: the handler has returned, and so does handleToolCall
handleToolCall_success(sessionId, result) ==
    /\ toolCalls[sessionId].pc = "await_handler"
    /\ toolCalls' = [toolCalls EXCEPT ![sessionId] = NoToolCall]
    /\ reply' = [op |-> "handleToolCall", sid |-> sessionId, ret |-> "ok",
                 path |-> "sync", error |-> "none",
                 value |-> [request_id |-> toolCalls[sessionId].request.request_id,
                            status |-> "success", result |-> result]]
    /\ lastCall' = NoCall
    /\ UNCHANGED <<jobState, srv>>

\* lines 133-136 and 167-170: the handler has thrown, and so does the call
handleToolCall_handlerThrew(sessionId) ==
    /\ toolCalls[sessionId].pc \in {"await_handler", "await_handler_legacy"}
    /\ toolCalls' = [toolCalls EXCEPT ![sessionId] = NoToolCall]
    /\ reply' = [op |-> "handleToolCall", sid |-> sessionId, ret |-> "error",
                 path |-> IF toolCalls[sessionId].pc = "await_handler"
                          THEN "sync" ELSE "legacy",
                 error |-> "handler"]
    /\ lastCall' = NoCall
    /\ UNCHANGED <<jobState, srv>>

\* lines 163-166: the legacy call names no tool the registry has: throw
handleLegacyToolCall_notFound(sessionId) ==
    /\ toolCalls[sessionId].pc = "await_getTool_legacy"
    /\ toolCalls[sessionId].request.name \notin KnownTools
    /\ toolCalls' = [toolCalls EXCEPT ![sessionId] = NoToolCall]
    /\ reply' = [op |-> "handleToolCall", sid |-> sessionId, ret |-> "error",
                 path |-> "legacy", error |-> "Tool not found"]
    /\ lastCall' = NoCall
    /\ UNCHANGED <<jobState, srv>>

\* lines 163-170: the legacy call invokes the handler; await handler
handleLegacyToolCall_invoke(sessionId) ==
    /\ toolCalls[sessionId].pc = "await_getTool_legacy"
    /\ toolCalls[sessionId].request.name \in KnownTools
    /\ toolCalls' = [toolCalls EXCEPT ![sessionId] =
                        [@ EXCEPT !.pc = "await_handler_legacy"]]
    /\ reply' = [op |-> "handleToolCall", sid |-> sessionId, ret |-> "pending",
                 path |-> "legacy", error |-> "none"]
    /\ lastCall' = NoCall
    /\ UNCHANGED <<jobState, srv>>

\* lines 167-174: the handler has returned; the response is made legacy
handleLegacyToolCall_success(sessionId, result) ==
    /\ toolCalls[sessionId].pc = "await_handler_legacy"
    /\ toolCalls' = [toolCalls EXCEPT ![sessionId] = NoToolCall]
    /\ reply' = [op |-> "handleToolCall", sid |-> sessionId, ret |-> "ok",
                 path |-> "legacy", error |-> "none",
                 value |-> convertToLegacy([result |-> result,
                                            status |-> "success"])]
    /\ lastCall' = NoCall
    /\ UNCHANGED <<jobState, srv>>

\* lines 176-198: job control goes to the job manager when there is one
MCP2025Server_pollJob(job_id) == config.asyncEnabled /\ pollJob(job_id)

MCP2025Server_resumeJob(job_id) == config.asyncEnabled /\ resumeJob(job_id)

MCP2025Server_cancelJob(job_id) ==
    /\ config.asyncEnabled
    /\ cancelJob_refused(job_id) \/ cancelJob_accepted(job_id)

\* lines 177-179, 183-185, 189-191: without a job manager they throw
MCP2025Server_notEnabled(op) ==
    /\ ~config.asyncEnabled
    /\ reply' = [op |-> op, ret |-> "error", error |-> "Async jobs not enabled"]
    /\ lastCall' = NoCall
    /\ UNCHANGED <<jobState, srv, toolCalls>>

\* -------------------------------------------------- the server: inputs
ModernHandshake ==
    [mcp_version |-> "2025-11", version |-> Undefined, transport |-> "stdio",
     capabilities |-> [kind |-> "array", items |-> <<"tools", "async">>]]
OlderHandshake ==
    [mcp_version |-> "2024-11", version |-> Undefined, transport |-> "stdio",
     capabilities |-> [kind |-> "array", items |-> <<"stream">>]]
NoTransportHandshake ==
    [mcp_version |-> "2025-11", version |-> Undefined, transport |-> Undefined,
     capabilities |-> [kind |-> "array", items |-> <<"async">>]]
LegacyHandshake ==
    [mcp_version |-> Undefined, version |-> "1.0", transport |-> Undefined,
     capabilities |-> [kind |-> "undefined", items |-> <<>>]]

ServerHandshakes == {ModernHandshake, OlderHandshake, NoTransportHandshake,
                     LegacyHandshake}

\* tool calls: asynchronous, synchronous, with arguments the tool's schema
\* rejects, for a tool the registry lacks, and in the legacy shape
AsyncRequest ==
    [request_id |-> "req", tool_id |-> "tool", name |-> Undefined,
     mode |-> "async", arguments |-> "valid"]
Requests ==
    {AsyncRequest,
     [AsyncRequest EXCEPT !.mode = "sync"],
     [AsyncRequest EXCEPT !.arguments = "invalid"],
     [AsyncRequest EXCEPT !.tool_id = "nope"],
     [AsyncRequest EXCEPT !.tool_id = Undefined, !.name = "tool"]}

ServerConfigs ==
    {DefaultConfig,
     [supportLegacyClients |-> FALSE, asyncEnabled |-> FALSE,
      validationEnabled |-> FALSE]}

\* the server under one of ServerConfigs, its job manager within one instant
\* of the clock (nothing expires, so the sweep has nothing to do)
ServerInit ==
    /\ InitJobManager
    /\ run.clockEnd = 0
    /\ InitNegotiator({EmptyHandshake})
    /\ InitServer(ServerConfigs)
    /\ InitTools

\* The server's handlers with the calls they make into the job manager.
\* What executeJob does once submitJob has returned, and the sweep, read and
\* write no state of the server and are the steps of Spec.
ServerNext ==
    \/ \E h \in ServerHandshakes, sid \in SessionIds :
          handleHandshake_negotiate(h, sid)
    \/ \E sid \in SessionIds : handleHandshake_failed(sid)
    \/ \E sid \in SessionIds : handleHandshake_stored(sid)
    \/ \E capability \in {"async"} : VersionNegotiator_addCapability(capability)
    \/ \E capability \in {"async"} : VersionNegotiator_removeCapability(capability)
    \/ \E request \in Requests, sid \in SessionIds :
          handleToolCall_legacy(request, sid)
    \/ \E request \in Requests, sid \in SessionIds :
          handleToolCall_missingToolId(request, sid)
    \/ \E request \in Requests, sid \in SessionIds :
          handleToolCall_getTool(request, sid)
    \/ \E sid \in SessionIds : handleToolCall_refused(sid)
    \/ \E sid \in SessionIds : handleToolCall_queueFull(sid)
    \/ \E sid \in SessionIds : handleToolCall_submit(sid)
    \/ \E sid \in SessionIds : handleToolCall_handle(sid)
    \/ \E sid \in SessionIds : handleToolCall_invoke(sid)
    \/ \E sid \in SessionIds, result \in Results : handleToolCall_success(sid, result)
    \/ \E sid \in SessionIds : handleToolCall_handlerThrew(sid)
    \/ \E sid \in SessionIds : handleLegacyToolCall_notFound(sid)
    \/ \E sid \in SessionIds : handleLegacyToolCall_invoke(sid)
    \/ \E sid \in SessionIds, result \in Results :
          handleLegacyToolCall_success(sid, result)
    \/ \E id \in JobIds : MCP2025Server_pollJob(id)
    \/ \E id \in JobIds : MCP2025Server_resumeJob(id)
    \/ \E id \in JobIds : MCP2025Server_cancelJob(id)
    \/ \E op \in {"pollJob", "resumeJob", "cancelJob"} : MCP2025Server_notEnabled(op)
    \/ \E id \in JobIds : submitJob_resume(id) /\ UNCHANGED <<toolCalls, reply>>
    \/ \E id \in JobIds : cancelJob_resume(id)

ServerSpec == ServerInit /\ [][ServerNext]_vars

\* ------------------------------------------------ the handshake on its own
FarHandshake == [ModernHandshake EXCEPT !.mcp_version = "2025-09"]
CloseHandshake == [ModernHandshake EXCEPT !.mcp_version = "2025-10"]
NoVersionHandshake == [ModernHandshake EXCEPT !.mcp_version = Undefined]
NoListHandshake ==
    [ModernHandshake EXCEPT !.capabilities = [kind |-> "string", items |-> <<>>]]
LegacyNoListHandshake ==
    [LegacyHandshake EXCEPT !.capabilities = [kind |-> "string", items |-> <<>>]]
LegacyVersionedHandshake == [ModernHandshake EXCEPT !.version = "1.0"]

ClientHandshakes ==
    ServerHandshakes \cup {FarHandshake, CloseHandshake, NoVersionHandshake,
                           NoListHandshake, LegacyNoListHandshake,
                           LegacyVersionedHandshake}

HandshakeInit ==
    /\ InitJobManager
    /\ run.clockEnd = 0
    /\ InitNegotiator({EmptyHandshake})
    /\ InitServer(ServerConfigs)
    /\ InitTools

HandshakeNext ==
    \/ \E h \in ClientHandshakes, sid \in SessionIds :
          handleHandshake_negotiate(h, sid)
    \/ \E sid \in SessionIds : handleHandshake_failed(sid)
    \/ \E sid \in SessionIds : handleHandshake_stored(sid)
    \/ \E capability \in AdminCapabilities :
          VersionNegotiator_addCapability(capability)
    \/ \E capability \in AdminCapabilities :
          VersionNegotiator_removeCapability(capability)

HandshakeSpec == HandshakeInit /\ [][HandshakeNext]_vars

\* ------------------------------------------ MCP2025Server.getHealthStatus
MaxLatency == 600     \* milliseconds between the two reads of Date.now()

\* lines 204 and 207
DegradedAbove == 100
UnhealthyAbove == 500

\* lines 203-209
HealthStatus(latency) ==
    IF latency > UnhealthyAbove THEN "unhealthy"
    ELSE IF latency > DegradedAbove THEN "degraded"
    ELSE "healthy"

\* lines 200-214: Date.now() is read twice, latency milliseconds apart (both
\* reads fall within one tick of the job manager's clock)
getHealthStatus(latency) ==
    /\ reply' = [op |-> "getHealthStatus", ret |-> "ok",
                 value |-> [status |-> HealthStatus(latency),
                            latency_ms |-> latency]]
    /\ lastCall' = NoCall
    /\ UNCHANGED <<jobState, srv, toolCalls>>

HealthNext == \E latency \in 0..MaxLatency : getHealthStatus(latency)

HealthSpec == Init /\ [][HealthNext]_vars

\* --------------------------------------------------------- SchemaValidator
MaxCompiles == 3      \* validators ajv.compile produces, over all schemas

\* compiled[k] lists when a validator for k was compiled, with Cleared
\* marking a clearCache call in between
Cleared == -1
CompileTimes(history) == SelectSeq(history, LAMBDA t : t # Cleared)
Compiles == Sum([k \in Schemas |-> Len(CompileTimes(compiled[k]))], Schemas)

\* an entry that is reused whatever its age
Fresh_Forever(entry, t) == entry.present

\* line 93: cached && Date.now() - cached.timestamp < this.cacheTTL
Fresh(entry, t) == entry.present /\ t - entry.timestamp < cacheTTL

\* lines 91-95: the cached validator is returned
getValidator_cached(schema) ==
    /\ Fresh(schemaCache[schema], now)
    /\ reply' = [op |-> "getValidator", key |-> schema, ret |-> "ok",
                 value |-> schemaCache[schema].validate]
    /\ lastCall' = NoCall
    /\ UNCHANGED <<jobState, serverCapabilities, negotiated, sessions,
                   handshakes, config, tools, validator, client, adapter, toolCalls>>

\* lines 91-103: no entry, or a stale one: the schema is compiled and the
\* entry written with the time of the compilation
getValidator_compile(schema) ==
    /\ ~Fresh(schemaCache[schema], now)
    /\ schema \in Compilable
    /\ Compiles < MaxCompiles
    /\ LET validate == Len(compiled[schema]) + 1
       IN  /\ schemaCache' = [schemaCache EXCEPT ![schema] =
                  [present |-> TRUE, validate |-> validate, timestamp |-> now]]
           /\ reply' = [op |-> "getValidator", key |-> schema, ret |-> "ok",
                        value |-> validate]
    /\ compiled' = [compiled EXCEPT ![schema] = Append(@, now)]
    /\ lastCall' = NoCall
    /\ UNCHANGED <<jobState, serverCapabilities, negotiated, sessions,
                   handshakes, config, tools, client, adapter, toolCalls>>

\* lines 96-109: ajv.compile throws, and getValidator throws what it threw
getValidator_throws(schema) ==
    /\ ~Fresh(schemaCache[schema], now)
    /\ schema \notin Compilable
    /\ reply' = [op |-> "getValidator", key |-> schema, ret |-> "error",
                 value |-> Null]
    /\ lastCall' = NoCall
    /\ UNCHANGED <<jobState, serverCapabilities, negotiated, sessions,
                   handshakes, config, tools, validator, client, adapter, toolCalls>>

\* clearCache, lines 143-146
SchemaValidator_clearCache ==
    /\ schemaCache' = [k \in Schemas |-> NoEntry]
    /\ compiled' = [k \in Schemas |->
                      IF compiled[k] = <<>> \/ compiled[k][Len(compiled[k])] = Cleared
                      THEN compiled[k] ELSE Append(compiled[k], Cleared)]
    /\ reply' = [op |-> "clearCache", key |-> "none", ret |-> "ok",
                 value |-> Null]
    /\ lastCall' = NoCall
    /\ UNCHANGED <<jobState, serverCapabilities, negotiated, sessions,
                   handshakes, config, tools, client, adapter, toolCalls>>

\* cleanupCache, lines 156-171: entries older than the TTL are deleted
cleanupCache ==
    /\ LET expired == {k \in Schemas : /\ schemaCache[k].present
                                       /\ now - schemaCache[k].timestamp > cacheTTL}
       IN  /\ schemaCache' = [k \in Schemas |->
                                IF k \in expired THEN NoEntry ELSE schemaCache[k]]
           /\ reply' = [op |-> "cleanupCache", key |-> "none", ret |-> "ok",
                        value |-> Cardinality(expired)]
    /\ lastCall' = NoCall
    /\ UNCHANGED <<jobState, serverCapabilities, negotiated, sessions,
                   handshakes, config, tools, compiled, client, adapter,
                   toolCalls>>

\* the validator over the whole clock
ValidatorInit == Init /\ run.clockEnd = MaxTime

ValidatorNext ==
    \/ Tick
    \/ \E schema \in Schemas : getValidator_cached(schema)
    \/ \E schema \in Schemas : getValidator_compile(schema)
    \/ \E schema \in Schemas : getValidator_throws(schema)
    \/ SchemaValidator_clearCache
    \/ cleanupCache

ValidatorSpec == ValidatorInit /\ [][ValidatorNext]_vars

\* ------------------------------ DynamicToolLoader.scanTools and loadTool,
\* ------------------------------ ProgressiveToolRegistry
\* what no step of the loader or the registry touches
notTools == <<jobState, serverCapabilities, negotiated, sessions, handshakes,
              config, validator, client, adapter, toolCalls, query>>

\* a load that returned a tool is recorded when no reload, clearCache or
\* cleanup has come since the call began
Returned(toolName, tool, since) ==
    IF tool # Null /\ since = epoch
    THEN [returned EXCEPT ![toolName] = @ \cup {tool}]
    ELSE returned

\* calls in flight are told apart by a slot; a new call takes the first
\* free one
FreeScan(s) == scans[s] = NoScan /\ \A t \in ScanIds : t < s => scans[t] # NoScan
FreeLoad(l) == loads[l] = NoLoad /\ \A k \in LoadIds : k < l => loads[k] # NoLoad

\* scanTools(), lines 408-411: the scan has completed, the map is returned
scanTools_cached ==
    /\ scanComplete
    /\ reply' = [op |-> "scanTools", name |-> "none", ret |-> "ok",
                 path |-> "cache", value |-> metadataCache]
    /\ lastCall' = NoCall
    /\ UNCHANGED <<notTools, metadataCache, loaderToolCache, scanComplete,
                   scans, toolCache, loads, created, returned, scanned, epoch>>

\* lines 412-419: the scan begins; await fs.readdir
scanTools_call(s) ==
    /\ ~scanComplete
    /\ FreeScan(s)
    /\ scans' = [scans EXCEPT ![s] =
                    [pc |-> "scanning", next |-> 1, caller |-> "scanTools"]]
    /\ scanned' = scanned + 1
    /\ reply' = NoReply
    /\ lastCall' = NoCall
    /\ UNCHANGED <<notTools, metadataCache, loaderToolCache, scanComplete,
                   toolCache, loads, created, returned, epoch>>

\* lines 432-461: the next file has been imported; its metadata, if it
\* exports any, is put in metadataCache; await import of the next file
scanTools_import(s) ==
    /\ scans[s].pc = "scanning"
    /\ scans[s].next <= Len(ToolsDir)
    /\ LET file == ToolsDir[scans[s].next]
       IN  metadataCache' =
               IF file.hasMetadata
               THEN MapSet(metadataCache, Metadata(file, scans[s].next))
               ELSE metadataCache
    /\ scans' = [scans EXCEPT ![s].next = @ + 1]
    /\ reply' = NoReply
    /\ lastCall' = NoCall
    /\ UNCHANGED <<notTools, loaderToolCache, scanComplete, toolCache, loads,
                   created, returned, scanned, epoch>>

\* lines 469-477: the last file is done: scanComplete is set and the map
\* returned, to the caller of scanTools or to initialize / reload
scanTools_complete(s) ==
    /\ scans[s].pc = "scanning"
    /\ scans[s].next > Len(ToolsDir)
    /\ scanComplete' = TRUE
    /\ IF scans[s].caller = "scanTools"
       THEN /\ scans' = [scans EXCEPT ![s] = NoScan]
            /\ reply' = [op |-> "scanTools", name |-> "none", ret |-> "ok",
                         path |-> "scan", value |-> metadataCache]
       ELSE /\ scans' = [scans EXCEPT ![s].pc = "await_scanTools"]
            /\ reply' = NoReply
    /\ lastCall' = NoCall
    /\ UNCHANGED <<notTools, metadataCache, loaderToolCache, toolCache, loads,
                   created, returned, scanned, epoch>>

\* ProgressiveToolRegistry.initialize, lines 45-47, on a registry that holds
\* no core tool: await toolLoader.scanTools()
initialize_call(s) ==
    /\ toolCache[CoreTool] = Null
    /\ \A t \in ScanIds : scans[t] = NoScan \/ scans[t].caller # "initialize"
    /\ FreeScan(s)
    /\ IF scanComplete
       THEN /\ scans' = [scans EXCEPT ![s] =
                   [pc |-> "await_scanTools", next |-> 1, caller |-> "initialize"]]
            /\ scanned' = scanned
       ELSE /\ scans' = [scans EXCEPT ![s] =
                   [pc |-> "scanning", next |-> 1, caller |-> "initialize"]]
            /\ scanned' = scanned + 1
    /\ reply' = NoReply
    /\ lastCall' = NoCall
    /\ UNCHANGED <<notTools, metadataCache, loaderToolCache, scanComplete,
                   toolCache, loads, created, returned, epoch>>

\* ProgressiveToolRegistry.reload, lines 278-281, with DynamicToolLoader.reload,
\* lines 594-598: the caches are cleared and a scan begins
reload_call(s) ==
    /\ epoch < MaxEpochs
    /\ FreeScan(s)
    /\ toolCache' = EmptyCache
    /\ metadataCache' = <<>>
    /\ loaderToolCache' = EmptyCache
    /\ scanComplete' = FALSE
    /\ scans' = [scans EXCEPT ![s] =
                    [pc |-> "scanning", next |-> 1, caller |-> "reload"]]
    /\ scanned' = 1
    /\ epoch' = epoch + 1
    /\ returned' = [n \in CacheNames |-> {}]
    /\ reply' = [op |-> "reload", name |-> "none", ret |-> "pending",
                 path |-> "none", value |-> Null]
    /\ lastCall' = NoCall
    /\ UNCHANGED <<notTools, loads, created>>

\* registerCoreTools, lines 66-73, as initialize (line 56) and reload (line
\* 282) call it once their scan has returned
registerCoreTools(s) ==
    /\ scans[s].pc = "await_scanTools"
    /\ Len(created) < MaxInstances
    /\ created' = Append(created, [name |-> CoreTool, epoch |-> epoch])
    /\ toolCache' = [toolCache EXCEPT ![CoreTool] = Len(created) + 1]
    /\ scans' = [scans EXCEPT ![s] = NoScan]
    /\ reply' = [op |-> scans[s].caller, name |-> CoreTool, ret |-> "ok",
                 path |-> "none", value |-> Null]
    /\ lastCall' = NoCall
    /\ UNCHANGED <<notTools, metadataCache, loaderToolCache, scanComplete,
                   loads, returned, scanned, epoch>>

\* ProgressiveToolRegistry.cleanup, lines 285-293 (no in-process server)
cleanup ==
    /\ epoch < MaxEpochs
    /\ toolCache' = EmptyCache
    /\ loaderToolCache' = EmptyCache
    /\ epoch' = epoch + 1
    /\ returned' = [n \in CacheNames |-> {}]
    /\ reply' = [op |-> "cleanup", name |-> "none", ret |-> "ok",
                 path |-> "none", value |-> Null]
    /\ lastCall' = NoCall
    /\ UNCHANGED <<notTools, metadataCache, scanComplete, scans, loads,
                   created, scanned>>

\* DynamicToolLoader.clearCache, lines 588-593
clearCache ==
    /\ epoch < MaxEpochs
    /\ loaderToolCache' = EmptyCache
    /\ epoch' = epoch + 1
    /\ returned' = [n \in CacheNames |-> {}]
    /\ reply' = [op |-> "clearCache", name |-> "none", ret |-> "ok",
                 path |-> "none", value |-> Null]
    /\ lastCall' = NoCall
    /\ UNCHANGED <<notTools, metadataCache, scanComplete, scans, toolCache,
                   loads, created, scanned>>

\* loadTool(toolName), lines 485-504, up to await import(metadata.filePath):
\* what the call does for caller via ("loadTool" when called on the loader,
\* "getOrLoadTool" when the registry calls it at line 162)
loadTool_begin(l, toolName, via) ==
    IF loaderToolCache[toolName] # Null
    THEN [pc |-> "return", name |-> toolName, via |-> via, since |-> epoch,
          path |-> "cache", tool |-> loaderToolCache[toolName], filePath |-> 0]
    ELSE IF ~HasMetadata(metadataCache, toolName)
    THEN [pc |-> "return", name |-> toolName, via |-> via, since |-> epoch,
          path |-> "not_found", tool |-> Null, filePath |-> 0]
    ELSE [pc |-> "await_import", name |-> toolName, via |-> via, since |-> epoch,
          path |-> "import", tool |-> Null,
          filePath |-> GetMetadata(metadataCache, toolName).filePath]

\* loadTool(toolName) called on the loader
loadTool_call(l, toolName) ==
    /\ FreeLoad(l)
    /\ LET call == loadTool_begin(l, toolName, "loadTool")
       IN  IF call.pc = "return"
           THEN /\ reply' = [op |-> "loadTool", name |-> toolName, ret |-> "ok",
                             path |-> call.path, value |-> call.tool]
                /\ returned' = Returned(toolName, call.tool, epoch)
                /\ loads' = loads
           ELSE /\ reply' = NoReply
                /\ returned' = returned
                /\ loads' = [loads EXCEPT ![l] = call]
    /\ lastCall' = NoCall
    /\ UNCHANGED <<notTools, metadataCache, loaderToolCache, scanComplete,
                   scans, toolCache, created, scanned, epoch>>

\* getOrLoadTool(toolName), lines 155-162: a tool the registry caches is
\* returned; otherwise await toolLoader.loadTool
getOrLoadTool_call(l, toolName) ==
    /\ FreeLoad(l)
    /\ IF toolCache[toolName] # Null
       THEN /\ reply' = [op |-> "getOrLoadTool", name |-> toolName, ret |-> "ok",
                         path |-> "cache", value |-> toolCache[toolName]]
            /\ returned' = Returned(toolName, toolCache[toolName], epoch)
            /\ loads' = loads
       ELSE /\ reply' = NoReply
            /\ returned' = returned
            /\ LET call == loadTool_begin(l, toolName, "getOrLoadTool")
               IN  loads' = [loads EXCEPT ![l] =
                       IF call.pc = "return"
                       THEN [call EXCEPT !.pc = "await_loadTool"] ELSE call]
    /\ lastCall' = NoCall
    /\ UNCHANGED <<notTools, metadataCache, loaderToolCache, scanComplete,
                   scans, toolCache, created, scanned, epoch>>

\* lines 504-508 and 523-529: the file is imported and exports no create*
\* function: the error is thrown, caught and logged, and loadTool returns
\* null
loadTool_noCreator(l) ==
    /\ loads[l].pc = "await_import"
    /\ ~ToolsDir[loads[l].filePath].creator
    /\ IF loads[l].via = "loadTool"
       THEN /\ reply' = [op |-> "loadTool", name |-> loads[l].name, ret |-> "ok",
                         path |-> "import", value |-> Null]
            /\ loads' = [loads EXCEPT ![l] = NoLoad]
       ELSE /\ reply' = NoReply
            /\ loads' = [loads EXCEPT ![l].pc = "await_loadTool"]
    /\ lastCall' = NoCall
    /\ UNCHANGED <<notTools, metadataCache, loaderToolCache, scanComplete,
                   scans, toolCache, created, returned, scanned, epoch>>

\* lines 504-522: the file is imported, its create* function makes the
\* tool, and the tool is cached and returned
loadTool_created(l) ==
    /\ loads[l].pc = "await_import"
    /\ ToolsDir[loads[l].filePath].creator
    /\ Len(created) < MaxInstances
    /\ LET tool == Len(created) + 1
       IN  /\ created' = Append(created, [name |-> loads[l].name,
                                          epoch |-> loads[l].since])
           /\ loaderToolCache' = [loaderToolCache EXCEPT ![loads[l].name] = tool]
           /\ IF loads[l].via = "loadTool"
              THEN /\ reply' = [op |-> "loadTool", name |-> loads[l].name,
                                ret |-> "ok", path |-> "import", value |-> tool]
                   /\ returned' = Returned(loads[l].name, tool, loads[l].since)
                   /\ loads' = [loads EXCEPT ![l] = NoLoad]
              ELSE /\ reply' = NoReply
                   /\ returned' = returned
                   /\ loads' = [loads EXCEPT ![l].pc = "await_loadTool",
                                             ![l].tool = tool]
    /\ lastCall' = NoCall
    /\ UNCHANGED <<notTools, metadataCache, scanComplete, scans, toolCache,
                   scanned, epoch>>

\* getOrLoadTool, lines 162-173: loadTool has returned; a tool is cached
\* in the registry, and what loadTool returned is returned
getOrLoadTool_resume(l) ==
    /\ loads[l].pc = "await_loadTool"
    /\ toolCache' = IF loads[l].tool # Null
                    THEN [toolCache EXCEPT ![loads[l].name] = loads[l].tool]
                    ELSE toolCache
    /\ reply' = [op |-> "getOrLoadTool", name |-> loads[l].name, ret |-> "ok",
                 path |-> loads[l].path, value |-> loads[l].tool]
    /\ returned' = Returned(loads[l].name, loads[l].tool, loads[l].since)
    /\ loads' = [loads EXCEPT ![l] = NoLoad]
    /\ lastCall' = NoCall
    /\ UNCHANGED <<notTools, metadataCache, loaderToolCache, scanComplete,
                   scans, created, scanned, epoch>>

ScanInit == Init /\ run.clockEnd = 0

\* the loader as constructed, scanned by its callers
ScanNext ==
    \/ scanTools_cached
    \/ \E s \in ScanIds : scanTools_call(s)
    \/ \E s \in ScanIds : scanTools_import(s)
    \/ \E s \in ScanIds : scanTools_complete(s)
    \/ \E s \in ScanIds : initialize_call(s)
    \/ \E s \in ScanIds : reload_call(s)
    \/ \E s \in ScanIds : registerCoreTools(s)

ScanSpec == ScanInit /\ [][ScanNext]_vars

\* what a scan of the first n files of the directory puts in metadataCache
RECURSIVE ScanOf(_)
ScanOf(n) ==
    IF n = 0 THEN <<>>
    ELSE IF ToolsDir[n].hasMetadata
         THEN MapSet(ScanOf(n - 1), Metadata(ToolsDir[n], n))
         ELSE ScanOf(n - 1)

\* the registry as createProgressiveToolRegistry returns it
\* (tool-registry-progressive.js lines 295-299): constructed and
\* initialized, the directory scanned and the core tool registered
Initialized ==
    /\ metadataCache = ScanOf(Len(ToolsDir))
    /\ scanComplete = TRUE
    /\ loaderToolCache = EmptyCache
    /\ toolCache = [EmptyCache EXCEPT ![CoreTool] = 1]
    /\ created = <<[name |-> CoreTool, epoch |-> 0]>>
    /\ scans = [s \in ScanIds |-> NoScan]
    /\ loads = [l \in LoadIds |-> NoLoad]
    /\ returned = [n \in CacheNames |-> {}]
    /\ scanned = 1
    /\ epoch = 0

LoaderInit ==
    /\ InitJobManager
    /\ run.clockEnd = 0
    /\ InitNegotiator({EmptyHandshake})
    /\ InitServer({DefaultConfig})
    /\ InitValidator
    /\ InitRegistryClient({TRUE})
    /\ InitAdapter
    /\ Initialized
    /\ query = NoQuery

\* the initialized registry: tools are loaded on demand, and the caches
\* reloaded or cleared
LoaderNext ==
    \/ \E s \in ScanIds : reload_call(s)
    \/ \E s \in ScanIds : scanTools_import(s)
    \/ \E s \in ScanIds : scanTools_complete(s)
    \/ \E s \in ScanIds : registerCoreTools(s)
    \/ cleanup
    \/ clearCache
    \/ \E l \in LoadIds, toolName \in ToolNames : loadTool_call(l, toolName)
    \/ \E l \in LoadIds, toolName \in ToolNames : getOrLoadTool_call(l, toolName)
    \/ \E l \in LoadIds : loadTool_noCreator(l)
    \/ \E l \in LoadIds : loadTool_created(l)
    \/ \E l \in LoadIds : getOrLoadTool_resume(l)

LoaderSpec == LoaderInit /\ [][LoaderNext]_vars

\* ------------------------------------------- DynamicToolLoader.searchTools
MaxTools == 3         \* entries of metadataCache

\* the characters of the strings names, descriptions and patterns are made of
Chars(string) ==
    CASE string = "ab" -> <<"a", "b">>
      [] string = "Abc" -> <<"A", "b", "c">>
      [] string = "b" -> <<"b">>
      [] string = "B" -> <<"B">>
      [] string = "AB" -> <<"A", "B">>
      [] string = "cab" -> <<"c", "a", "b">>
      [] string = "x" -> <<"x">>
      [] string = "zz" -> <<"z", "z">>
      [] OTHER -> <<>>

\* String.prototype.toLowerCase, on characters
toLowerCase(chars) ==
    [i \in DOMAIN chars |->
        CASE chars[i] = "A" -> "a"
          [] chars[i] = "B" -> "b"
          [] OTHER -> chars[i]]

\* String.prototype.includes, on characters
includes(chars, pattern) ==
    \E i \in 0..(Len(chars) - Len(pattern)) :
        SubSeq(chars, i + 1, i + Len(pattern)) = pattern

\* String.prototype.localeCompare on these strings: letters compare by the
\* alphabet whatever their case, a prefix sorts first, and of two strings
\* that differ in case only the one with the lower-case letter sorts first
Letter(char) ==
    CASE char \in {"a", "A"} -> 1
      [] char \in {"b", "B"} -> 2
      [] char = "c" -> 3
      [] char = "x" -> 24
      [] OTHER -> 26

FirstDifference(s, t, Same(_, _)) ==
    LET both == 1..(IF Len(s) < Len(t) THEN Len(s) ELSE Len(t))
        diff == {i \in both : ~Same(s[i], t[i])}
    IN  IF diff = {} THEN 0 ELSE CHOOSE i \in diff : \A j \in diff : i <= j

localeCompare(a, b) ==
    LET s == Chars(a)
        t == Chars(b)
        p == FirstDifference(s, t, LAMBDA x, y : Letter(x) = Letter(y))
        c == FirstDifference(s, t, LAMBDA x, y : x = y)
    IN  IF p # 0 THEN (IF Letter(s[p]) < Letter(t[p]) THEN -1 ELSE 1)
        ELSE IF Len(s) # Len(t) THEN (IF Len(s) < Len(t) THEN -1 ELSE 1)
        ELSE IF c = 0 THEN 0
        ELSE IF toLowerCase(s)[c] = s[c] THEN -1 ELSE 1

\* a tag filter that is content with any one of the query's tags
hasAllTags_Any(queryTags, toolTags) ==
    \E i \in DOMAIN queryTags : Includes(toolTags, queryTags[i])

\* line 545: query.tags.every(tag => toolTags.includes(tag))
hasAllTags(queryTags, toolTags) ==
    \A i \in DOMAIN queryTags : Includes(toolTags, queryTags[i])

\* lines 537-555: the entry passes every filter of the query (a missing
\* tags field of the entry reads as the empty list)
Passes(metadata, q) ==
    /\ ~(~Falsy(q.category) /\ metadata.category # q.category)
    /\ ~(~Falsy(q.detailLevel) /\ metadata.detailLevel # q.detailLevel)
    /\ ~(/\ q.tags.kind = "array"
         /\ Len(q.tags.items) > 0
         /\ ~hasAllTags(q.tags.items, metadata.tags))
    /\ ~(/\ ~Falsy(q.namePattern)
         /\ LET pattern == toLowerCase(Chars(q.namePattern))
            IN  /\ ~includes(toLowerCase(Chars(metadata.name)), pattern)
                /\ ~includes(toLowerCase(Chars(metadata.description)), pattern))

\* line 558: Array.prototype.sort with (a, b) => a.name.localeCompare(b.name),
\* a stable sort
RECURSIVE SortByName(_)
SortByName(results) ==
    IF results = <<>> THEN <<>>
    ELSE LET sorted == SortByName(SubSeq(results, 1, Len(results) - 1))
             last == results[Len(results)]
             before == {i \in DOMAIN sorted :
                           localeCompare(sorted[i].name, last.name) <= 0}
             k == Cardinality({i \in before : \A j \in 1..i : j \in before})
         IN  SubSeq(sorted, 1, k) \o <<last>> \o SubSeq(sorted, k + 1, Len(sorted))

\* searchTools(query), lines 534-560
searchTools(map, q) ==
    SortByName(SelectSeq(map, LAMBDA metadata : Passes(metadata, q)))

DynamicToolLoader_searchTools ==
    /\ reply' = [op |-> "searchTools", ret |-> "ok",
                 value |-> searchTools(metadataCache, query)]
    /\ lastCall' = NoCall
    /\ UNCHANGED <<jobState, srv, toolCalls>>

\* metadata of scanned tools: names that differ in case only, tags in both
\* orders, a description that holds a name, an entry without detailLevel
ScannedMetadata ==
    {[name |-> "b", description |-> "x", category |-> "system",
      detailLevel |-> "basic", tags |-> <<"a", "b">>, filePath |-> 1],
     [name |-> "Abc", description |-> "x", category |-> "system",
      detailLevel |-> "standard", tags |-> <<"a">>, filePath |-> 2],
     [name |-> "ab", description |-> "cab", category |-> "data",
      detailLevel |-> "basic", tags |-> <<"b", "a">>, filePath |-> 3],
     [name |-> "B", description |-> "AB", category |-> "data",
      detailLevel |-> Undefined, tags |-> <<>>, filePath |-> 4]}

\* metadataCache after a scan: up to MaxTools entries, in any order
Catalogues ==
    {map \in UNION {[1..n -> ScannedMetadata] : n \in 0..MaxTools} :
        \A i, j \in DOMAIN map : i # j => map[i].name # map[j].name}

Queries ==
    [category : {Undefined, "system", "data"},
     detailLevel : {Undefined, "basic"},
     tags : {[kind |-> "undefined", items |-> <<>>],
             [kind |-> "array", items |-> <<>>],
             [kind |-> "array", items |-> <<"a">>],
             [kind |-> "array", items |-> <<"a", "b">>]},
     namePattern : {Undefined, "AB", "b", "zz"}]

SearchInit ==
    /\ InitJobManager
    /\ run.clockEnd = 0
    /\ InitNegotiator({EmptyHandshake})
    /\ InitServer({DefaultConfig})
    /\ InitRegistry(Catalogues, Queries)
    /\ InitValidator
    /\ InitRegistryClient({TRUE})
    /\ InitAdapter

SearchNext == DynamicToolLoader_searchTools

SearchSpec == SearchInit /\ [][SearchNext]_vars

\* ------------------------------------------------------ MCPRegistryClient
\* what no step of the registry client touches
notClient == <<jobState, serverCapabilities, negotiated, sessions, handshakes,
               config, tools, validator, adapter, toolCalls>>

FreeRegister(r) ==
    /\ registrations[r] = NoRegister
    /\ \A k \in RegisterIds : k < r => registrations[k] # NoRegister

\* register and unregister, lines 200-203 and 326-328: the client is
\* disabled and the call returns
MCPRegistryClient_disabled(op) ==
    /\ ~registryConfig.enabled
    /\ reply' = [op |-> op, ret |-> "ok", timer |-> Null]
    /\ lastCall' = NoCall
    /\ UNCHANGED <<notClient, client>>

\* register, lines 199-211: the entry is built and posted; await fetch
register_call(r) ==
    /\ registryConfig.enabled
    /\ FreeRegister(r)
    /\ registrations' = [registrations EXCEPT ![r] = [pc |-> "await_post"]]
    /\ reply' = NoReply
    /\ lastCall' = NoCall
    /\ UNCHANGED <<notClient, registryConfig, healthCheckInterval, timers,
                   timersStarted>>

\* lines 221-223 and 230-235: the fetch fails or the response is not ok;
\* the error is logged and thrown
register_failed(r) ==
    /\ registrations[r].pc = "await_post"
    /\ registrations' = [registrations EXCEPT ![r] = NoRegister]
    /\ reply' = [op |-> "register", ret |-> "error", timer |-> Null]
    /\ lastCall' = NoCall
    /\ UNCHANGED <<notClient, registryConfig, healthCheckInterval, timers,
                   timersStarted>>

\* lines 225-229 with startHealthReporting, lines 374-382: the server is
\* registered; setInterval makes a timer and healthCheckInterval holds it
register_resume(r) ==
    /\ registrations[r].pc = "await_post"
    /\ timersStarted < MaxTimers
    /\ LET timer == timersStarted + 1
       IN  /\ timers' = timers \cup {timer}
           /\ healthCheckInterval' = timer
           /\ timersStarted' = timer
           /\ reply' = [op |-> "register", ret |-> "ok", timer |-> timer]
    /\ registrations' = [registrations EXCEPT ![r] = NoRegister]
    /\ lastCall' = NoCall
    /\ UNCHANGED <<notClient, registryConfig>>

\* unregister, lines 325-334, with stopHealthReporting, lines 383-389: the
\* timer healthCheckInterval holds, if any, is cleared; await fetch
unregister_call(r) ==
    /\ registryConfig.enabled
    /\ FreeRegister(r)
    /\ IF healthCheckInterval # Null
       THEN /\ timers' = timers \ {healthCheckInterval}
            /\ healthCheckInterval' = Null
       ELSE UNCHANGED <<timers, healthCheckInterval>>
    /\ registrations' = [registrations EXCEPT ![r] = [pc |-> "await_delete"]]
    /\ reply' = NoReply
    /\ lastCall' = NoCall
    /\ UNCHANGED <<notClient, registryConfig, timersStarted>>

\* lines 334-354: whatever the fetch gave is logged; unregister returns
unregister_resume(r) ==
    /\ registrations[r].pc = "await_delete"
    /\ registrations' = [registrations EXCEPT ![r] = NoRegister]
    /\ reply' = [op |-> "unregister", ret |-> "ok", timer |-> Null]
    /\ lastCall' = NoCall
    /\ UNCHANGED <<notClient, registryConfig, healthCheckInterval, timers,
                   timersStarted>>

\* lines 376-378 and 266-295: a timer that was not cleared fires and
\* reportHealth posts the health; its failures are logged
reportHealth(timer) ==
    /\ timer \in timers
    /\ reply' = [op |-> "reportHealth", ret |-> "ok", timer |-> timer]
    /\ lastCall' = NoCall
    /\ UNCHANGED <<notClient, client>>

RegistryInit ==
    /\ InitJobManager
    /\ run.clockEnd = 0
    /\ InitNegotiator({EmptyHandshake})
    /\ InitServer({DefaultConfig})
    /\ InitRegistry({<<>>}, {NoQuery})
    /\ InitValidator
    /\ InitRegistryClient(BOOLEAN)
    /\ InitAdapter

RegistryNext ==
    \/ \E op \in {"register", "unregister"} : MCPRegistryClient_disabled(op)
    \/ \E r \in RegisterIds : register_call(r)
    \/ \E r \in RegisterIds : register_failed(r)
    \/ \E r \in RegisterIds : register_resume(r)
    \/ \E r \in RegisterIds : unregister_call(r)
    \/ \E r \in RegisterIds : unregister_resume(r)
    \/ \E timer \in 1..MaxTimers : reportHealth(timer)

RegistrySpec == RegistryInit /\ [][RegistryNext]_vars

\* -------------------------------------------------- reasoningbank-adapter
\* what no step of the adapter touches
notAdapter == <<nextId, heap, jobs, pjobs, porder, pc, exec, emitted,
                cancelAwait, sweep, hist, swept, run, serverCapabilities,
                negotiated, sessions, handshakes, config, tools, validator,
                client, toolCalls>>

\* line 283: Date.now() - cached.timestamp < CACHE_TTL
CacheFresh(entry, t) == t - entry.timestamp < CACHE_TTL

\* getCachedQuery, lines 277-287: the results cached under cacheKey, if they
\* are fresh
getCachedQuery(cache, cacheKey, t) ==
    IF \E i \in DOMAIN cache : cache[i].key = cacheKey /\ CacheFresh(cache[i], t)
    THEN [hit |-> TRUE,
          results |-> cache[CHOOSE i \in DOMAIN cache : cache[i].key = cacheKey].results]
    ELSE [hit |-> FALSE, results |-> 0]

\* setCachedQuery, lines 288-301: a full cache loses its first key, then the
\* entry is set (Map.set keeps the place of a key the map has)
setCachedQuery(cache, cacheKey, results, t) ==
    LET kept == IF Len(cache) >= CACHE_SIZE THEN Tail(cache) ELSE cache
        entry == [key |-> cacheKey, results |-> results, timestamp |-> t]
    IN  IF \E i \in DOMAIN kept : kept[i].key = cacheKey
        THEN [i \in DOMAIN kept |->
                 IF kept[i].key = cacheKey THEN entry ELSE kept[i]]
        ELSE Append(kept, entry)

\* ensureInitialized, lines 8-17, as a call made with the backend in state b:
\* the first call starts ReasoningBank.initialize
ensureInitialized(b) == IF b = "none" THEN "pending" ELSE b

\* lines 16-18: ReasoningBank.initialize has resolved
ReasoningBank_initialized ==
    /\ backend = "pending"
    /\ backend' = "ready"
    /\ reply' = NoReply
    /\ lastCall' = NoCall
    /\ UNCHANGED <<now, notAdapter, db, queryCache, queryCalls, storeCalls, stored>>

\* lines 20-35: better-sqlite3 is missing under npx; initPromise resolves
\* to false
ReasoningBank_unavailable ==
    /\ backend = "pending"
    /\ backend' = "unavailable"
    /\ reply' = NoReply
    /\ lastCall' = NoCall
    /\ UNCHANGED <<now, notAdapter, db, queryCache, queryCalls, storeCalls, stored>>

\* queryMemories, lines 89-93: the results are in the cache and are returned
queryMemories_cached(cacheKey) ==
    /\ getCachedQuery(queryCache, cacheKey, now).hit
    /\ reply' = [op |-> "queryMemories", key |-> cacheKey, ret |-> "ok",
                 path |-> "cache", began |-> stored,
                 value |-> getCachedQuery(queryCache, cacheKey, now).results]
    /\ lastCall' = NoCall
    /\ UNCHANGED <<now, notAdapter, adapter>>

FreeQuery(q) ==
    /\ queryCalls[q] = NoQueryCall
    /\ \A k \in QueryIds : k < q => queryCalls[k] # NoQueryCall

\* lines 89-94: nothing fresh is cached; await ensureInitialized
queryMemories_call(q, cacheKey) ==
    /\ FreeQuery(q)
    /\ ~getCachedQuery(queryCache, cacheKey, now).hit
    /\ queryCalls' = [queryCalls EXCEPT ![q] =
           [pc |-> "await_init", key |-> cacheKey, began |-> stored,
            results |-> 0]]
    /\ backend' = ensureInitialized(backend)
    /\ reply' = NoReply
    /\ lastCall' = NoCall
    /\ UNCHANGED <<now, notAdapter, db, queryCache, storeCalls, stored>>

\* lines 95-97: the backend is not available and [] is returned
queryMemories_unavailable(q) ==
    /\ queryCalls[q].pc = "await_init"
    /\ backend = "unavailable"
    /\ queryCalls' = [queryCalls EXCEPT ![q] = NoQueryCall]
    /\ reply' = [op |-> "queryMemories", key |-> queryCalls[q].key,
                 ret |-> "ok", path |-> "unavailable",
                 began |-> queryCalls[q].began, value |-> 0]
    /\ lastCall' = NoCall
    /\ UNCHANGED <<now, notAdapter, backend, db, queryCache, storeCalls, stored>>

\* lines 98-101: ReasoningBank.retrieveMemories is called and finds the
\* memories the database holds; await retrieveMemories
queryMemories_retrieve(q) ==
    /\ queryCalls[q].pc = "await_init"
    /\ backend = "ready"
    /\ queryCalls' = [queryCalls EXCEPT ![q].pc = "await_retrieve",
                                        ![q].results = db]
    /\ reply' = NoReply
    /\ lastCall' = NoCall
    /\ UNCHANGED <<now, notAdapter, backend, db, queryCache, storeCalls, stored>>

\* lines 101-137: retrieveMemories has resolved; its memories, or when it
\* found none what db.fetchMemoryCandidates finds now, are cached and
\* returned
queryMemories_resume(q) ==
    /\ queryCalls[q].pc = "await_retrieve"
    /\ LET memories == IF queryCalls[q].results = 0 THEN db
                       ELSE queryCalls[q].results
       IN  /\ queryCache' = setCachedQuery(queryCache, queryCalls[q].key,
                                           memories, now)
           /\ reply' = [op |-> "queryMemories", key |-> queryCalls[q].key,
                        ret |-> "ok",
                        path |-> IF queryCalls[q].results = 0 THEN "fallback"
                                 ELSE "retrieve",
                        began |-> queryCalls[q].began, value |-> memories]
    /\ queryCalls' = [queryCalls EXCEPT ![q] = NoQueryCall]
    /\ lastCall' = NoCall
    /\ UNCHANGED <<now, notAdapter, backend, db, storeCalls, stored>>

\* lines 138-158: retrieveMemories has rejected; what
\* db.fetchMemoryCandidates finds now is cached and returned
queryMemories_fallback(q) ==
    /\ queryCalls[q].pc = "await_retrieve"
    /\ queryCache' = setCachedQuery(queryCache, queryCalls[q].key, db, now)
    /\ reply' = [op |-> "queryMemories", key |-> queryCalls[q].key,
                 ret |-> "ok", path |-> "fallback",
                 began |-> queryCalls[q].began, value |-> db]
    /\ queryCalls' = [queryCalls EXCEPT ![q] = NoQueryCall]
    /\ lastCall' = NoCall
    /\ UNCHANGED <<now, notAdapter, backend, db, storeCalls, stored>>

\* storeMemory, line 48: await ensureInitialized
storeMemory_call ==
    /\ storeCalls = NoStore
    /\ db < MaxStores
    /\ storeCalls' = [pc |-> "await_init", memory |-> 0]
    /\ backend' = ensureInitialized(backend)
    /\ reply' = NoReply
    /\ lastCall' = NoCall
    /\ UNCHANGED <<now, notAdapter, db, queryCache, queryCalls, stored>>

\* lines 49-51: the backend is not available and storeMemory throws
storeMemory_unavailable ==
    /\ storeCalls.pc = "await_init"
    /\ backend = "unavailable"
    /\ storeCalls' = NoStore
    /\ reply' = [op |-> "storeMemory", key |-> "none", ret |-> "error",
                 path |-> "unavailable", began |-> stored, value |-> 0]
    /\ lastCall' = NoCall
    /\ UNCHANGED <<now, notAdapter, backend, db, queryCache, queryCalls, stored>>

\* lines 52-72: the memory is put in the database; await computeEmbedding
storeMemory_upsert ==
    /\ storeCalls.pc = "await_init"
    /\ backend = "ready"
    /\ db' = db + 1
    /\ storeCalls' = [pc |-> "await_embedding", memory |-> db + 1]
    /\ reply' = NoReply
    /\ lastCall' = NoCall
    /\ UNCHANGED <<now, notAdapter, backend, queryCache, queryCalls, stored>>

\* lines 72-83: the embedding is stored, or its failure logged; the query
\* cache is cleared and the memory's id returned
storeMemory_resume ==
    /\ storeCalls.pc = "await_embedding"
    /\ queryCache' = <<>>
    /\ stored' = storeCalls.memory
    /\ storeCalls' = NoStore
    /\ reply' = [op |-> "storeMemory", key |-> "none", ret |-> "ok",
                 path |-> "none", began |-> stored, value |-> storeCalls.memory]
    /\ lastCall' = NoCall
    /\ UNCHANGED <<now, notAdapter, backend, db, queryCalls>>

\* the clock advances while no job manager call is in flight
AdapterInit == Init /\ run.clockEnd = MaxTime

AdapterNext ==
    \/ Tick
    \/ ReasoningBank_initialized
    \/ ReasoningBank_unavailable
    \/ \E cacheKey \in CacheKeys : queryMemories_cached(cacheKey)
    \/ \E q \in QueryIds, cacheKey \in CacheKeys : queryMemories_call(q, cacheKey)
    \/ \E q \in QueryIds : queryMemories_unavailable(q)
    \/ \E q \in QueryIds : queryMemories_retrieve(q)
    \/ \E q \in QueryIds : queryMemories_resume(q)
    \/ \E q \in QueryIds : queryMemories_fallback(q)
    \/ storeMemory_call
    \/ storeMemory_unavailable
    \/ storeMemory_upsert
    \/ storeMemory_resume

AdapterSpec == AdapterInit /\ [][AdapterNext]_vars

\* ---------------------------------------------------------------- claims
Submitted == DOMAIN heap

\* C1: once a job's status is success, error or cancelled, no step changes
\* the status, and a job that is cancelled keeps result and error unset.
C1_TerminalAbsorbing ==
    [][\A id \in Submitted :
          heap[id].status \in Terminal =>
              /\ heap'[id].status = heap[id].status
              /\ heap[id].status = "cancelled" =>
                    /\ heap'[id].result = "unset"
                    /\ heap'[id].error = NoError]_vars

TerminalEvents(id) ==
    emitted[id].completed + emitted[id].failed + emitted[id].cancelled

\* C2: at most one terminal event (job:completed, job:failed, job:cancelled)
\* is ever emitted for a job.
C2_OneTerminalEvent == \A id \in JobIds : TerminalEvents(id) <= 1

\* the step in which cancelJob is called and runs up to its return false or
\* to its await, and the step in which it returns true
CancelCalled(c) ==
    /\ c.op = "cancelJob"
    /\ (c.ret = "pending" \/ (c.ret = "ok" /\ c.value = FALSE))

CancelReturnedTrue(c) == c.op = "cancelJob" /\ c.ret = "ok" /\ c.value = TRUE

\* C3: a cancelJob call that finds the job in a terminal status returns
\* false, leaves the job record and the persisted records as they were and
\* emits no event.
C3_CancelTerminalNoOp ==
    [][(CancelCalled(lastCall') /\ lastCall'.seen.status \in Terminal)
       => (/\ lastCall'.ret = "ok"
           /\ heap' = heap
           /\ pjobs' = pjobs
           /\ emitted' = emitted)]_vars

\* C4: a cancelJob call that finds the job queued or running is accepted: it
\* marks the job cancelled, stamps completed_at and saves it; and when
\* cancelJob returns true, job:cancelled has been emitted and the persisted
\* record, as pollJob and listJobs read it, has status cancelled.
C4_CancelLiveJob ==
    /\ [][(/\ CancelCalled(lastCall')
            /\ lastCall'.seen.status \in {"queued", "running"})
           => (/\ lastCall'.ret = "pending"
               /\ heap'[lastCall'.id].status = "cancelled"
               /\ heap'[lastCall'.id].completed_at = now
               /\ pjobs'[lastCall'.id] = heap'[lastCall'.id])]_vars
    /\ [](CancelReturnedTrue(lastCall)
           => /\ emitted[lastCall.id].cancelled >= 1
              /\ load(pjobs, lastCall.id).status = "cancelled")

\* ids whose job no accepted cancelJob call has touched
NeverCancelled(id) == emitted[id].cancelled + cancelAwait[id] = 0

Lifecycles ==
    {<<>>, <<"queued">>, <<"queued", "running">>,
     <<"queued", "running", "success">>, <<"queued", "running", "error">>}

\* the status of the job object, "none" before submitJob created it
StatusOf(id) == IF id \in Submitted THEN heap[id].status ELSE "none"

LastAssigned(id) == IF hist[id] = <<>> THEN "none" ELSE hist[id][Len(hist[id])]

C6_RejectedSubmitChangesNothing ==
    [][(lastCall'.op = "submitJob" /\ lastCall'.ret = "error")
       => (/\ lastCall'.value = QueueFullError
           /\ UNCHANGED <<now, nextId, heap, jobs, pjobs, porder, pc, exec,
                          emitted, cancelAwait, sweep, hist, swept>>)]_vars

C6_Witness ==
    /\ lastCall.op = "submitJob"
    /\ lastCall.ret = "error"
    /\ Cardinality(jobs) = maxJobs
    /\ \E id \in jobs : heap[id].status = "running"

\* the jobs of the manager's map that are queued or running
LiveJobs == {id \in jobs : heap[id].status \in {"queued", "running"}}

\* C7: submitJob throws the capacity error exactly when the number of queued
\* or running jobs has reached maxJobs; terminal jobs do not count.
C7_CapacityCountsLiveJobs ==
    (lastCall.op = "submitJob" /\ lastCall.ret \in {"error", "pending"})
    => (lastCall.ret = "error" <=> Cardinality(LiveJobs) >= maxJobs)

\* C8: pollJob returns poll_after 0 exactly for a record in a terminal
\* status, and a positive poll_after with the record's progress exactly for
\* a queued or running record.
C8_PollAfter ==
    (lastCall.op = "pollJob" /\ lastCall.ret = "ok")
    => /\ lastCall.value.poll_after = 0 <=> lastCall.seen.status \in Terminal
       /\ (/\ lastCall.value.poll_after > 0
           /\ lastCall.value.progress =
                 [percent |-> lastCall.seen.progress,
                  message |-> lastCall.seen.progress_message])
          <=> lastCall.seen.status \in {"queued", "running"}

\* C9: resumeJob returns success with the stored result for a success
\* record, error with a structured error for an error record, and reports
\* the job in progress (with a progress snapshot) only for a queued or
\* running record.
C9_ResumeConsistent ==
    (lastCall.op = "resumeJob" /\ lastCall.ret = "ok")
    => /\ lastCall.seen.status = "success"
            => /\ lastCall.value.status = "success"
               /\ lastCall.value.result = lastCall.seen.result
       /\ lastCall.seen.status = "error"
            => /\ lastCall.value.status = "error"
               /\ lastCall.value.error.code = "EXECUTION_ERROR"
               /\ lastCall.value.error.message # ""
               /\ lastCall.value.error.details = lastCall.seen.error
       /\ lastCall.value.status = "in_progress"
            => lastCall.seen.status \in {"queued", "running"}
       /\ lastCall.value.progress # NoProgress
            => lastCall.seen.status \in {"queued", "running"}

\* ids whose handle an accepted submitJob has returned
HandleReturned(id) == pc[id] \notin {"none", "await_save_59"}

\* C10: pollJob and resumeJob throw "Job not found: <id>" for an id that
\* was never submitted or whose job the sweep has deleted, they succeed for
\* an id that submitJob returned and the sweep has not deleted, and they
\* change no state.
C10_JobNotFound ==
    /\ [](lastCall.op \in {"pollJob", "resumeJob"}
           => /\ (lastCall.id >= nextId \/ lastCall.id \in swept)
                   => (lastCall.ret = "error"
                       /\ lastCall.value = NotFound(lastCall.id))
              /\ (HandleReturned(lastCall.id) /\ lastCall.id \notin swept)
                   => lastCall.ret = "ok")
    /\ [][lastCall'.op \in {"pollJob", "resumeJob"}
           => UNCHANGED <<now, nextId, heap, jobs, pjobs, porder, pc, exec,
                          emitted, cancelAwait, sweep, hist, swept>>]_vars

\* the sweep takes job id out of the persistence store or out of the map
SweepDeletes(id) ==
    \/ id \in DOMAIN pjobs /\ id \notin DOMAIN pjobs'
    \/ id \in jobs /\ id \notin jobs'

\* C11: whatever runs between the steps of cleanupExpiredJobs, a job leaves
\* the persistence store or the map only when it is older than jobTTL and its
\* status is not running: no running job and no job younger than jobTTL is
\* ever deleted.
C11_SweepDeletesOnlyExpired ==
    [][\A id \in Submitted :
          SweepDeletes(id) =>
              /\ now - heap[id].created_at > jobTTL
              /\ heap[id].status # "running"
              /\ id \in DOMAIN pjobs => pjobs[id].status # "running"]_vars

\* the sweep has deleted a job that was cancelled while its executor ran on
C11_Witness ==
    \E id \in swept :
        /\ id \notin jobs
        /\ id \notin DOMAIN pjobs
        /\ heap[id].status = "cancelled"
        /\ now - heap[id].created_at > jobTTL

\* C12: an accepted submitJob takes a job id no other job has, saves the job
\* as queued before its executor is invoked, and returns the handle
\* {request_id, job_id, status in_progress, poll_after} before the executor
\* has been invoked, let alone finished: the job is running at that moment.
C12_SubmitReturnsHandleAtOnce ==
    /\ [][(lastCall'.op = "submitJob" /\ lastCall'.ret = "pending")
            => /\ lastCall'.id \notin Submitted
               /\ lastCall'.id \in DOMAIN pjobs'
               /\ pjobs'[lastCall'.id].status = "queued"
               /\ exec'[lastCall'.id] = "idle"]_vars
    /\ [](\A id \in JobIds :
             pc[id] = "await_save_59"
                => /\ id \in DOMAIN pjobs
                   /\ pjobs[id].status = "queued"
                   /\ exec[id] = "idle"
                   /\ emitted[id].started = 0)
    /\ [](\A id \in Submitted : heap[id].job_id = id)
    /\ []((lastCall.op = "submitJob" /\ lastCall.ret = "ok")
            => /\ lastCall.value = JobHandle(heap[lastCall.id])
               /\ exec[lastCall.id] = "idle"
               /\ heap[lastCall.id].status = "running")

\* submitJob has returned the handle of a job that is running and whose
\* executor has not been invoked yet
C12_Witness ==
    /\ lastCall.op = "submitJob"
    /\ lastCall.ret = "ok"
    /\ lastCall.value.status = "in_progress"
    /\ heap[lastCall.id].status = "running"
    /\ exec[lastCall.id] = "idle"

\* ------------------------------------------------- claims: the negotiator
\* what the claims call a well-formed handshake: a version, a transport and
\* a list of capabilities
WellFormed(h) ==
    /\ h.mcp_version \notin {Undefined, ""}
    /\ h.transport \notin {Undefined, ""}
    /\ h.capabilities.kind = "array"

\* a version that is a YYYY-MM token: a four-digit year and a month 01..12
IsYearMonth(version) ==
    /\ Len(VersionParts(version)) = 2
    /\ VersionParts(version)[1] \in 1000..9999
    /\ VersionParts(version)[2] \in 1..12

\* months between two YYYY-MM tokens, in either direction
MonthsApart(v1, v2) ==
    Abs((VersionParts(v1)[1] * 12 + VersionParts(v1)[2])
        - (VersionParts(v2)[1] * 12 + VersionParts(v2)[2]))

\* negotiate ran in the last step, on a handshake with a YYYY-MM version
\* more than one month from the server's
NegotiatedFarVersion ==
    /\ negotiated.called
    /\ IsYearMonth(negotiated.handshake.mcp_version)
    /\ MonthsApart(negotiated.handshake.mcp_version, serverVersion) > 1

NegotiationFailed ==
    /\ ~negotiated.result.success
    /\ negotiated.result.error \notin {"", NoNegotiationError}

\* C17 as stated: for every client version more than 1 month of YYYY-MM
\* distance from the server's, negotiate returns success=false with a
\* non-empty error.
C17_FarVersionFails == NegotiatedFarVersion => NegotiationFailed

\* C17: for every client version that is not in the supported list and is
\* more than 1 month of YYYY-MM distance, in either direction, from the
\* server's, negotiate returns success=false with a non-empty error.
C17_FarUnsupportedVersionFails ==
    (/\ NegotiatedFarVersion
     /\ ~Includes(supportedVersions, negotiated.handshake.mcp_version))
        => NegotiationFailed

\* negotiate has rejected a well-formed handshake whose version is two
\* months or more from the server's and not in the supported list
C17_Witness ==
    /\ NegotiatedFarVersion
    /\ ~Includes(supportedVersions, negotiated.handshake.mcp_version)
    /\ WellFormed(negotiated.handshake)
    /\ negotiated.result.error = VersionMismatch
    /\ negotiated.result.agreed_version = serverVersion

\* C18: for every well-formed handshake whose version is the server's,
\* negotiate succeeds and the agreed version is that version, whatever the
\* capability list.
C18_EqualVersionSucceeds ==
    (/\ negotiated.called
     /\ WellFormed(negotiated.handshake)
     /\ negotiated.handshake.mcp_version = serverVersion)
        => /\ negotiated.result.success
           /\ negotiated.result.agreed_version = negotiated.handshake.mcp_version

\* negotiate has accepted the server's version with an empty capability list
C18_Witness ==
    /\ negotiated.called
    /\ WellFormed(negotiated.handshake)
    /\ negotiated.handshake.mcp_version = serverVersion
    /\ negotiated.handshake.capabilities.items = <<>>
    /\ negotiated.result.success

\* C19: for a well-formed handshake whose version differs from the server's,
\* a version outside the supported list and at most 1 month away succeeds
\* with the agreed version pinned to the server's, and a version in the
\* supported list succeeds with the agreed version equal to the client's.
C19_CloseVersionPinned ==
    (/\ negotiated.called
     /\ WellFormed(negotiated.handshake)
     /\ negotiated.handshake.mcp_version # serverVersion)
        => /\ (/\ ~Includes(supportedVersions, negotiated.handshake.mcp_version)
                /\ IsYearMonth(negotiated.handshake.mcp_version)
                /\ MonthsApart(negotiated.handshake.mcp_version, serverVersion) <= 1)
                  => /\ negotiated.result.success
                     /\ negotiated.result.agreed_version = serverVersion
           /\ Includes(supportedVersions, negotiated.handshake.mcp_version)
                  => /\ negotiated.result.success
                     /\ negotiated.result.agreed_version
                            = negotiated.handshake.mcp_version

\* negotiate has accepted a version one month from the server's
C19_Witness ==
    /\ negotiated.called
    /\ WellFormed(negotiated.handshake)
    /\ ~Includes(supportedVersions, negotiated.handshake.mcp_version)
    /\ IsYearMonth(negotiated.handshake.mcp_version)
    /\ MonthsApart(negotiated.handshake.mcp_version, serverVersion) = 1
    /\ negotiated.result.success
    /\ negotiated.result.agreed_version = serverVersion

\* seq with its items rearranged in every possible order
Rearranged(seq) ==
    {[i \in DOMAIN seq |-> seq[pi[i]]] : pi \in Permutations(DOMAIN seq)}

\* C20: the agreed capabilities of a successful negotiation are, as a set,
\* the client's capabilities that are also the server's, and every
\* reordering of the client's list or the server's list gives the same set.
C20_CapabilitiesIntersection ==
    (negotiated.called /\ negotiated.result.success)
        => LET A == negotiated.handshake.capabilities.items
               B == negotiated.capabilities
           IN  /\ Range(negotiated.result.agreed_capabilities)
                     = Range(A) \cap Range(B)
               /\ \A A2 \in Rearranged(A), B2 \in Rearranged(B) :
                     Range(negotiateCapabilities(A2, B2))
                         = Range(negotiated.result.agreed_capabilities)

\* a successful negotiation of two client capabilities, one of them the
\* server's, after the server's list was changed
C20_Witness ==
    /\ negotiated.called
    /\ negotiated.result.success
    /\ negotiated.capabilities # DefaultCapabilities
    /\ Len(negotiated.handshake.capabilities.items) = 2
    /\ Cardinality(Range(negotiated.handshake.capabilities.items)
                       \cap Range(negotiated.capabilities)) = 1
    /\ Len(negotiated.result.agreed_capabilities) = 1

\* ---------------------------------------------------- claims: the server
\* a session record that lacks the async capability, or no record at all
LacksAsync(session) ==
    ~session.present \/ "async" \notin Range(session.capabilities)

\* the handleToolCall call at sid acts in this step
ToolCallActs(sid) == toolCalls[sid].pc # "none" /\ toolCalls'[sid] # toolCalls[sid]

\* submitJob is called in this step
SubmitJobCalled ==
    \/ nextId' # nextId
    \/ lastCall'.op = "submitJob" /\ lastCall'.ret \in {"pending", "error"}

\* C13: submitJob is called only by a modern tool call whose mode is async
\* and whose session, as the call read it, holds the async capability; a
\* call with mode async whose session lacks async, or that has no session,
\* invokes the handler itself, changes nothing in the job manager, and when
\* the handler returns, returns status success with the handler's result.
C13_AsyncNeedsModeAndCapability ==
    /\ [][SubmitJobCalled =>
            \E sid \in SessionIds :
                /\ ToolCallActs(sid)
                /\ toolCalls[sid].pc = "await_getTool"
                /\ toolCalls[sid].request.mode = "async"
                /\ ~LacksAsync(toolCalls[sid].session)]_vars
    /\ [][\A sid \in SessionIds :
            (/\ ToolCallActs(sid)
             /\ toolCalls[sid].pc \in {"await_getTool", "await_handler"}
             /\ toolCalls[sid].request.mode = "async"
             /\ LacksAsync(toolCalls[sid].session))
                => /\ UNCHANGED jobState
                   /\ lastCall'.op # "submitJob"
                   /\ toolCalls[sid].pc = "await_getTool"
                        => \/ reply'.ret = "error" /\ reply'.path = "none"
                           \/ /\ toolCalls'[sid].pc = "await_handler"
                              /\ reply'.path = "sync"
                   /\ (toolCalls[sid].pc = "await_handler" /\ reply'.ret = "ok")
                        => /\ reply'.value.status = "success"
                           /\ reply'.value.result \in Results
                           /\ reply'.value.request_id
                                = toolCalls[sid].request.request_id]_vars

\* a call with mode async on a session without async has had its handler
\* invoked in the call itself, and no job exists
C13_Witness ==
    \E sid \in SessionIds :
        /\ toolCalls[sid].pc = "await_handler"
        /\ toolCalls[sid].request.mode = "async"
        /\ toolCalls[sid].session.present
        /\ "async" \notin Range(toolCalls[sid].session.capabilities)
        /\ config.asyncEnabled
        /\ reply.path = "sync"
        /\ Submitted = {}

\* C14: once handleHandshake has stored a session for a session id, no step
\* of any operation changes that session's agreed version, capabilities or
\* legacy flag; the record can only be deleted.
C14_SessionImmutable ==
    [][\A sid \in SessionIds :
          sessions[sid].present
              => \/ ~sessions'[sid].present
                 \/ /\ sessions'[sid].version = sessions[sid].version
                    /\ sessions'[sid].capabilities = sessions[sid].capabilities
                    /\ sessions'[sid].isLegacy = sessions[sid].isLegacy]_vars

\* the handleHandshake call at sid resumes in this step
HandshakeResumes(sid) ==
    handshakes[sid].pc = "await_negotiate" /\ handshakes'[sid] = NoHandshake

\* C15: negotiate answers a handshake that lacks a version, lacks a
\* transport or whose capabilities are no list with success=false and the
\* server's version as agreed_version, as it does every handshake it fails;
\* handleHandshake then throws, creates no session and leaves every session
\* record as it was.
C15_FailedHandshakeNoSession ==
    /\ [](\A sid \in SessionIds :
            handshakes[sid].pc = "await_negotiate"
                => /\ ~WellFormed(handshakes[sid].handshake)
                        => ~handshakes[sid].negotiation.success
                   /\ ~handshakes[sid].negotiation.success
                        => /\ handshakes[sid].negotiation.agreed_version
                                = serverVersion
                           /\ handshakes[sid].negotiation.error
                                \notin {"", NoNegotiationError})
    /\ [][\A sid \in SessionIds :
            (HandshakeResumes(sid) /\ ~handshakes[sid].negotiation.success)
                => /\ sessions' = sessions
                   /\ reply'.ret = "error"]_vars

\* handleHandshake has thrown on a malformed handshake for a session id that
\* has no session, while the other session id keeps its session
C15_Witness ==
    /\ reply.op = "handleHandshake"
    /\ reply.ret = "error"
    /\ reply.error = InvalidStructure
    /\ ~sessions[reply.sid].present
    /\ \E sid \in SessionIds \ {reply.sid} : sessions[sid].present

\* C16: the server handshake a successful handleHandshake returns carries
\* the negotiated version and capabilities, the session record it stored
\* carries the same, the capabilities are among those the client offered,
\* and no step of handleHandshake changes the server's capability list.
C16_HandshakeStampedWithNegotiated ==
    /\ [][\A sid \in SessionIds :
            (HandshakeResumes(sid) /\ handshakes[sid].negotiation.success)
                => /\ reply'.ret = "ok"
                   /\ reply'.value.mcp_version
                        = handshakes[sid].negotiation.agreed_version
                   /\ reply'.value.capabilities
                        = handshakes[sid].negotiation.agreed_capabilities
                   /\ sessions'[sid].present
                   /\ sessions'[sid].version = reply'.value.mcp_version
                   /\ sessions'[sid].capabilities = reply'.value.capabilities
                   /\ Range(reply'.value.capabilities)
                        \subseteq Range(handshakes[sid].clientHandshake
                                            .capabilities.items)]_vars
    /\ [][handshakes' # handshakes
            => serverCapabilities' = serverCapabilities]_vars

\* handleHandshake has returned a version and capabilities that are not the
\* server's own, and the session holds them
C16_Witness ==
    /\ reply.op = "handleHandshake"
    /\ reply.ret = "ok"
    /\ reply.value.mcp_version # serverVersion
    /\ reply.value.capabilities # serverCapabilities
    /\ reply.value.capabilities # <<>>
    /\ sessions[reply.sid].version = reply.value.mcp_version
    /\ sessions[reply.sid].capabilities = reply.value.capabilities

\* C25: with validation enabled, a modern tool call for a tool the registry
\* has, whose arguments fail validateInput, throws when it resumes after
\* getTool: the handler is not invoked, submitJob is not called, the job
\* manager's state is untouched, and no such call is ever found waiting on
\* a handler or on submitJob.
C25_InvalidInputRejected ==
    /\ [][\A sid \in SessionIds :
            (/\ ToolCallActs(sid)
             /\ toolCalls[sid].pc = "await_getTool"
             /\ config.validationEnabled
             /\ toolCalls[sid].request.tool_id \in KnownTools
             /\ ~InputValid(toolCalls[sid].request))
                => /\ reply'.op = "handleToolCall"
                   /\ reply'.ret = "error"
                   /\ reply'.error = "Invalid input"
                   /\ toolCalls'[sid] = NoToolCall
                   /\ UNCHANGED jobState
                   /\ ~SubmitJobCalled]_vars
    /\ [](\A sid \in SessionIds :
            (/\ config.validationEnabled
             /\ toolCalls[sid].pc \in {"await_handler", "await_submitJob"})
                => InputValid(toolCalls[sid].request))

\* a modern call with invalid arguments has just been refused, under
\* validation, with no job submitted
C25_Witness ==
    /\ config.validationEnabled
    /\ reply.op = "handleToolCall"
    /\ reply.ret = "error"
    /\ reply.error = "Invalid input"
    /\ Submitted = {}

\* C27: with legacy support, a handleHandshake call on a request detected
\* as legacy is normalised to the server's version, a transport and a list
\* of capabilities, and when it resumes it does not throw: it stores a
\* session flagged legacy with the server's version.
C27_LegacyHandshakeNeverFails ==
    /\ [](\A sid \in SessionIds :
            (/\ handshakes[sid].pc = "await_negotiate"
             /\ config.supportLegacyClients
             /\ handshakes[sid].isLegacy)
                => /\ handshakes[sid].handshake.mcp_version = serverVersion
                   /\ ~Falsy(handshakes[sid].handshake.transport)
                   /\ handshakes[sid].negotiation.success)
    /\ [][\A sid \in SessionIds :
            (/\ HandshakeResumes(sid)
             /\ config.supportLegacyClients
             /\ handshakes[sid].isLegacy)
                => /\ reply'.ret = "ok"
                   /\ sessions'[sid].present
                   /\ sessions'[sid].isLegacy
                   /\ sessions'[sid].version = serverVersion]_vars

C28_HealthThresholds ==
    reply.op = "getHealthStatus"
        => reply.value.status =
              IF reply.value.latency_ms < 100 THEN "healthy"
              ELSE IF reply.value.latency_ms < 500 THEN "degraded"
              ELSE "unhealthy"

\* ---------------------------------------------- claims: the schema validator
\* a getValidator call on key k returns in this step
GetValidatorReturns(k) ==
    reply'.op = "getValidator" /\ reply'.key = k /\ reply'.ret = "ok"

\* getValidator returns the cached validator, compiling nothing, when the
\* entry is younger than the TTL, and otherwise compiles a new validator and
\* writes the entry with the current time
ReusedWithinTTL ==
    [][\A k \in Schemas :
          GetValidatorReturns(k) =>
              IF schemaCache[k].present /\ now - schemaCache[k].timestamp < cacheTTL
              THEN /\ reply'.value = schemaCache[k].validate
                   /\ UNCHANGED <<schemaCache, compiled>>
              ELSE /\ schemaCache'[k].present
                   /\ schemaCache'[k].timestamp = now
                   /\ schemaCache'[k].validate = reply'.value
                   /\ schemaCache[k].present
                        => schemaCache'[k].validate # schemaCache[k].validate
                   /\ compiled'[k] = Append(compiled[k], now)]_vars

\* C30 as stated: a validator is reused while its entry is younger than the
\* TTL and recompiled, with a new timestamp, at or after it; and any two
\* compilations of one schema are at least the TTL apart.
C30_CompiledOncePerWindow ==
    /\ ReusedWithinTTL
    /\ [](\A k \in Schemas :
            LET times == CompileTimes(compiled[k])
            IN  \A i, j \in DOMAIN times :
                    i < j => times[j] - times[i] >= cacheTTL)

\* C30, amended: a validator is reused while its entry is younger than the
\* TTL and recompiled, with a new timestamp, at or after it; and two
\* compilations of one schema with no clearCache between them are at least
\* the TTL apart.
C30_CompiledOncePerWindowUnlessCleared ==
    /\ ReusedWithinTTL
    /\ [](\A k \in Schemas :
            \A i \in 1..(Len(compiled[k]) - 1) :
                (compiled[k][i] # Cleared /\ compiled[k][i + 1] # Cleared)
                    => compiled[k][i + 1] - compiled[k][i] >= cacheTTL)

\* a schema has been compiled a second time, with no clearCache in between,
\* and getValidator has just returned the validator of its entry
C30_Witness ==
    \E k \in Schemas :
        /\ reply.op = "getValidator"
        /\ reply.key = k
        /\ reply.ret = "ok"
        /\ reply.value = schemaCache[k].validate
        /\ \E i \in 1..(Len(compiled[k]) - 1) :
               compiled[k][i] # Cleared /\ compiled[k][i + 1] # Cleared

\* ------------------------------------------------ claims: the tool loader
\* pattern occurs in text when case is ignored
OccursIgnoringCase(pattern, text) ==
    \E offset \in 0..(Len(text) - Len(pattern)) :
        \A j \in 1..Len(pattern) :
            toLowerCase(<<text[offset + j]>>) = toLowerCase(<<pattern[j]>>)

\* the entry satisfies every filter the query provides
Satisfies(metadata, q) ==
    /\ q.category # Undefined => metadata.category = q.category
    /\ q.detailLevel # Undefined => metadata.detailLevel = q.detailLevel
    /\ q.tags.kind = "array"
          => \A tag \in Range(q.tags.items) : tag \in Range(metadata.tags)
    /\ q.namePattern # Undefined
          => \/ OccursIgnoringCase(Chars(q.namePattern), Chars(metadata.name))
             \/ OccursIgnoringCase(Chars(q.namePattern),
                                   Chars(metadata.description))

\* C26: searchTools returns exactly the entries of metadataCache that
\* satisfy every provided filter, each once, in the order of their names;
\* with the tag filter [a, b] every returned entry has both tags.
C26_SearchReturnsMatchesSorted ==
    reply.op = "searchTools"
        => LET results == reply.value
           IN  /\ Range(results)
                    = {metadata \in Range(metadataCache) : Satisfies(metadata, query)}
               /\ Len(results) = Cardinality(Range(results))
               /\ \A i, j \in DOMAIN results :
                      i < j => localeCompare(results[i].name, results[j].name) < 0
               /\ query.tags.items = <<"a", "b">>
                      => \A i \in DOMAIN results :
                            {"a", "b"} \subseteq Range(results[i].tags)

\* a search with the tag filter [a, b] has returned two entries, in another
\* order than metadataCache holds them, and left out an entry that has only
\* one of the tags
C26_Witness ==
    /\ reply.op = "searchTools"
    /\ query.tags.items = <<"a", "b">>
    /\ Len(reply.value) = 2
    /\ reply.value # SelectSeq(metadataCache,
                               LAMBDA metadata : metadata \in Range(reply.value))
    /\ \E i \in DOMAIN metadataCache :
           /\ "a" \in Range(metadataCache[i].tags)
           /\ "b" \notin Range(metadataCache[i].tags)


\* the tool instances created for toolName by loads that began in epoch e
CreatedFor(toolName, e) ==
    {i \in DOMAIN created : created[i].name = toolName /\ created[i].epoch = e}

\* C21: the loads of one tool name with no reload, clearCache or cleanup
\* between them, sequential or overlapping, all return the same instance,
\* and the tool's creator function is invoked only once for them
C21_SameInstanceCreatedOnce ==
    \A toolName \in ToolNames :
        /\ Cardinality(returned[toolName]) <= 1
        /\ \A e \in 0..MaxEpochs : Cardinality(CreatedFor(toolName, e)) <= 1

\* C22: with no reload in between, the calls of scanTools, sequential or
\* overlapping, scan the tool tree at most once, and a reload causes exactly
\* one fresh scan
C22_ScannedAtMostOnce == scanned <= 1

\* C23: a tool name in the registry's or the loader's cache stays there,
\* mapped to the same instance, across every step that is not part of a
\* reload, a clearCache or a cleanup
C23_CacheMonotonic ==
    [][reply'.op \notin {"reload", "clearCache", "cleanup"} =>
          \A toolName \in CacheNames :
              /\ toolCache[toolName] # Null =>
                     toolCache'[toolName] = toolCache[toolName]
              /\ loaderToolCache[toolName] # Null =>
                     loaderToolCache'[toolName] = loaderToolCache[toolName]]_vars

\* the file that defines toolName exports a create* function
HasCreator(toolName) ==
    \E i \in DOMAIN ToolsDir :
        ToolsDir[i].toolMetadata.name = toolName /\ ToolsDir[i].creator

\* C24: a loadTool that imported the file of a scanned tool and found no
\* create* export ends with an error for its caller and nothing cached
\* under that name
C24_NoCreatorSurfacesError ==
    (reply.op = "loadTool" /\ reply.path = "import" /\ ~HasCreator(reply.name))
        => reply.ret = "error" /\ loaderToolCache[reply.name] = Null


\* ------------------------------------------- claims: the job manager, again
\* C31: the job manager's map never holds more than maxJobs jobs, however
\* the steps of concurrent submitJob calls interleave
C31_NeverMoreThanMaxJobs == Cardinality(jobs) <= maxJobs


\* C32: whenever no submitJob call and no sweep is suspended at an await,
\* the persistence store and the manager's map hold the same job ids; and a
\* job the sweep deleted is never in the persistence store again
C32_StoreMatchesMap ==
    /\ ((\A id \in JobIds : pc[id] # "await_save_59") /\ sweep.pc = "idle")
           => DOMAIN pjobs = jobs
    /\ \A id \in swept : sweep.pc = "idle" => id \notin DOMAIN pjobs


\* the timestamps, result and error of a job record agree with its status
WellFormedJob(j) ==
    /\ j.completed_at # NotSet <=> j.status \in Terminal
    /\ j.status \in Terminal \cup {"running"} => j.started_at # NotSet
    /\ j.result # "unset" => j.status = "success"
    /\ j.error # NoError => j.status = "error"

C34_HandlerOnlyForEstablishedSession ==
    \A sid \in SessionIds :
        toolCalls[sid].pc \in {"await_handler", "await_handler_legacy",
                               "await_submitJob"}
            => toolCalls[sid].session.present


\* C35: on a server configured with supportLegacyClients = false no session
\* record carries the legacy flag (the flag that sends handleToolCall down
\* the legacy path)
C35_NoLegacySessionWithoutSupport ==
    ~config.supportLegacyClients =>
        \A sid \in SessionIds :
            sessions[sid].present => ~sessions[sid].isLegacy


\* ------------------------------------------- claims: the negotiator, again
\* C36: negotiate succeeds only for a client version that is the server's,
\* is in the supported list, or is a YYYY-MM token at most 1 month from the
\* server's; a non-empty version that is no YYYY-MM token gets success=false
C36_UnparsableVersionRejected ==
    negotiated.called =>
        LET version == negotiated.handshake.mcp_version
        IN  /\ negotiated.result.success =>
                   \/ version = serverVersion
                   \/ Includes(supportedVersions, version)
                   \/ /\ IsYearMonth(version)
                      /\ MonthsApart(version, serverVersion) <= 1
            /\ (version \notin {Undefined, ""} /\ ~IsYearMonth(version))
                   => ~negotiated.result.success


\* ------------------------------------------ claims: the registry client
\* C37: at most one health-reporting timer is running at any time, whatever
\* register and unregister calls were made, and when unregister has
\* returned none is running
C37_AtMostOneHealthTimer ==
    /\ Cardinality(timers) <= 1
    /\ reply.op = "unregister" => timers = {}


\* ------------------------------------- claims: the ReasoningBank adapter
\* C38: a queryMemories call that began after a storeMemory call had
\* returned is never answered with results found before that store put its
\* memory in the database, however queries and stores overlap; and the query
\* cache never holds more than CACHE_SIZE entries
C38_QueryNeverStaleAfterStore ==
    /\ (reply.op = "queryMemories" /\ reply.path # "unavailable")
           => reply.value >= reply.began
    /\ Len(queryCache) <= CACHE_SIZE

====
